---- MODULE Spec2Model ----
(***************************************************************************)
(* Verification model of UnifiedOpenAccessArt.                             *)
(*                                                                         *)
(*   Spec       the relational query API (backend/main.py) over the        *)
(*              artworks table of unified_art.db                           *)
(*   SpecDate   the DateInfo model and the date parsers of the Cleveland,  *)
(*              MoMA and NGA processors                                    *)
(*   SpecRow    the column-map processors building one artwork from one    *)
(*              source row (BaseMuseumDataProcessor._row_to_artwork)       *)
(*   SpecMerge  the merger (SimpleMerger.process_museums) writing the      *)
(*              artworks table from the museums' source files              *)
(*                                                                         *)
(* Values that may be absent (SQL NULL, Python None, pandas NaN) are       *)
(* modelled as a sequence of length 0 or 1: NULL is <<>>, a present value  *)
(* v is <<v>>.  Text is a sequence of one-character strings.               *)
(***************************************************************************)
EXTENDS Integers, Sequences, FiniteSets, TLC

VARIABLES
    table,      \* the artworks table of unified_art.db: [cols, rows]
    req,        \* the HTTP request being served (query API)
    resp,       \* the HTTP response to req
    dateIn,     \* the call made to a date parser or to the DateInfo constructor
    dateOut,    \* what that call returned or raised
    rowIn,      \* the processor and source row given to _row_to_artwork
    rowOut,     \* the UnifiedArtwork it returned
    csv,        \* the source file of every museum of the registry
    merge,      \* the merger's progress: position in the museum loop, all_artworks
    call,       \* the call made to one of the functions checked on their own
    ret,        \* what that call returned or raised
    embed,      \* process_artwork_batches: its inputs, loop position and lists
    store,      \* the vector-store collection the embeddings are upserted into
    pool,       \* fetch_images_concurrently: the futures and the images list
    cli         \* interactive_cli: its settings, history and last input

apiVars == <<table, req, resp>>

dateVars == <<dateIn, dateOut>>

rowVars == <<rowIn, rowOut>>

mergeVars == <<csv, merge>>

callVars == <<call, ret>>

\* the variables of the components that follow the merger
embedVars == <<embed, store>>

fetchVars == <<pool>>

cliVars == <<cli>>

extVars == <<callVars, embedVars, fetchVars, cliVars>>

vars ==
    <<table, req, resp, dateIn, dateOut, rowIn, rowOut, csv, merge, call, ret,
      embed, store, pool, cli>>

(***************************************************************************)
(* Absent values                                                           *)
(***************************************************************************)
NULL == <<>>

Some(v) == <<v>>

IsNull(x) == x = <<>>

Val(x) == x[1]

Min2(a, b) == IF a <= b THEN a ELSE b

\* a variable of a component that is not running
NoCall == [op |-> "none"]

CallIdle == call = NoCall /\ ret = NoCall

EmbedIdle == embed = NoCall /\ store = NoCall

FetchIdle == pool = NoCall

CliIdle == cli = NoCall

ExtIdle == CallIdle /\ EmbedIdle /\ FetchIdle /\ CliIdle

(***************************************************************************)
(* The artworks table                                                      *)
(***************************************************************************)
\* column order the handlers of the query API index rows by (row[0]..row[12])
ArtworkColumns ==
    <<"id", "museum", "title", "type", "artist_name", "artist_birth",
      "artist_death", "date_text", "start_year", "end_year", "is_bce",
      "url", "image_url">>

HasCol(cols, name) == \E i \in 1..Len(cols) : cols[i] = name

ColIdx(cols, name) == CHOOSE i \in 1..Len(cols) : cols[i] = name

\* value of a named column of a row, as SQL reads it
Col(t, row, name) == row[ColIdx(t.cols, name)]

(***************************************************************************)
(* SQLite expressions: three-valued logic, LIKE, integer division          *)
(***************************************************************************)
SqlAnd(a, b) ==
    IF a = "F" \/ b = "F" THEN "F"
    ELSE IF a = "T" /\ b = "T" THEN "T" ELSE "U"

SqlOr(a, b) ==
    IF a = "T" \/ b = "T" THEN "T"
    ELSE IF a = "F" /\ b = "F" THEN "F" ELSE "U"

SqlBool(b) == IF b THEN "T" ELSE "F"

SqlEq(x, y) == IF IsNull(x) \/ IsNull(y) THEN "U" ELSE SqlBool(Val(x) = Val(y))

SqlGe(x, y) == IF IsNull(x) \/ IsNull(y) THEN "U" ELSE SqlBool(Val(x) >= Val(y))

SqlLe(x, y) == IF IsNull(x) \/ IsNull(y) THEN "U" ELSE SqlBool(Val(x) <= Val(y))

SqlIsNull(x) == SqlBool(IsNull(x))

\* ASCII case folding of LIKE
Lower(c) == IF c = "A" THEN "a" ELSE IF c = "B" THEN "b" ELSE c

LowerText(s) == [i \in 1..Len(s) |-> Lower(s[i])]

Contains(s, sub) ==
    \E k \in 0..(Len(s) - Len(sub)) :
        \A i \in 1..Len(sub) : s[k + i] = sub[i]

\* column LIKE '%' || search || '%'
SqlLike(x, search) ==
    IF IsNull(x) THEN "U"
    ELSE SqlBool(Contains(LowerText(Val(x)), LowerText(search)))

\* integer division of SQLite truncates toward zero
SqlDiv(a, b) == IF a >= 0 THEN a \div b ELSE -((-a) \div b)

(***************************************************************************)
(* GET /api/artworks                                                       *)
(***************************************************************************)
LimitLe == 100

\* `if search:` is false for an absent and for an empty search text
SearchGiven(q) == ~IsNull(q.search) /\ Val(q.search) # <<>>

YearGiven(q) == ~IsNull(q.min_year) \/ ~IsNull(q.max_year)

SearchCond(t, row, q) ==
    SqlOr(SqlOr(SqlLike(Col(t, row, "title"), Val(q.search)),
                SqlLike(Col(t, row, "museum"), Val(q.search))),
          SqlLike(Col(t, row, "artist_name"), Val(q.search)))

MinYearCond(t, row, q) ==
    IF q.min_is_bce
    THEN SqlAnd(SqlEq(Col(t, row, "is_bce"), Some(1)),
                SqlLe(Col(t, row, "start_year"), q.min_year))
    ELSE SqlOr(SqlAnd(SqlEq(Col(t, row, "is_bce"), Some(0)),
                      SqlGe(Col(t, row, "start_year"), q.min_year)),
               SqlAnd(SqlIsNull(Col(t, row, "start_year")),
                      SqlGe(Col(t, row, "end_year"), q.min_year)))

MaxYearCond(t, row, q) ==
    IF q.max_is_bce
    THEN SqlAnd(SqlEq(Col(t, row, "is_bce"), Some(1)),
                SqlGe(Col(t, row, "end_year"), q.max_year))
    ELSE SqlOr(SqlAnd(SqlEq(Col(t, row, "is_bce"), Some(0)),
                      SqlLe(Col(t, row, "end_year"), q.max_year)),
               SqlAnd(SqlIsNull(Col(t, row, "end_year")),
                      SqlLe(Col(t, row, "start_year"), q.max_year)))

\* the bounds joined by AND instead of OR
YearCond_JoinedByAnd(t, row, q) ==
    IF ~IsNull(q.min_year) /\ ~IsNull(q.max_year)
    THEN SqlAnd(MinYearCond(t, row, q), MaxYearCond(t, row, q))
    ELSE IF ~IsNull(q.min_year) THEN MinYearCond(t, row, q)
    ELSE MaxYearCond(t, row, q)

\* ' OR '.join(year_conditions)
YearCond(t, row, q) ==
    IF ~IsNull(q.min_year) /\ ~IsNull(q.max_year)
    THEN SqlOr(MinYearCond(t, row, q), MaxYearCond(t, row, q))
    ELSE IF ~IsNull(q.min_year) THEN MinYearCond(t, row, q)
    ELSE MaxYearCond(t, row, q)

\* "WHERE " + " AND ".join(conditions); no WHERE clause selects every row
WhereClause(t, row, q) ==
    SqlAnd(IF SearchGiven(q) THEN SearchCond(t, row, q) ELSE "T",
           IF YearGiven(q) THEN YearCond(t, row, q) ELSE "T")

\* the columns the WHERE clause names
WhereColumns(q) ==
    (IF SearchGiven(q) THEN {"title", "museum", "artist_name"} ELSE {})
    \cup (IF YearGiven(q) THEN {"is_bce", "start_year", "end_year"} ELSE {})

\* sqlite3.OperationalError: no such column
NoSuchColumn(t, q) == \E c \in WhereColumns(q) : ~HasCol(t.cols, c)

\* the rows the WHERE clause selects, in ROWID order
SelectWhere(t, q) == SelectSeq(t.rows, LAMBDA row : WhereClause(t, row, q) = "T")

\* SELECT COUNT(*) FROM artworks {where_clause}
CountQuery(t, q) == Len(SelectWhere(t, q))

\* the data query without its LIMIT
DataQuery_NoLimit(t, q) ==
    LET offset == (q.page - 1) * q.limit
        sel == SelectWhere(t, q)
    IN  SubSeq(sel, offset + 1, Len(sel))

\* SELECT * ... ORDER BY ROWID LIMIT ? OFFSET ?
DataQuery(t, q) ==
    LET offset == (q.page - 1) * q.limit
        sel == SelectWhere(t, q)
    IN  SubSeq(sel, offset + 1, Min2(offset + q.limit, Len(sel)))

\* Artwork(id=row[0], ..., image_url=row[12]) raises: IndexError on a row
\* shorter than 13 values, ValidationError on None for id, museum, title, is_bce
ArtworkRaises(row) ==
    \/ Len(row) < 13
    \/ IsNull(row[1]) \/ IsNull(row[2]) \/ IsNull(row[3])
    \/ IsNull(row[11])

Artwork(row) ==
    [id |-> Val(row[1]), museum |-> Val(row[2]), title |-> Val(row[3]),
     type |-> row[4], artist_name |-> row[5], artist_birth |-> row[6],
     artist_death |-> row[7], date_text |-> row[8], start_year |-> row[9],
     end_year |-> row[10], is_bce |-> (Val(row[11]) = 1), url |-> row[12],
     image_url |-> row[13]]

get_artworks(t, q) ==
    IF NoSuchColumn(t, q) THEN [status |-> 500]
    ELSE LET total == CountQuery(t, q)
             rows == DataQuery(t, q)
         IN  IF \E i \in 1..Len(rows) : ArtworkRaises(rows[i])
             THEN [status |-> 500]
             ELSE [status |-> 200, total |-> total,
                   artworks |-> [i \in 1..Len(rows) |-> Artwork(rows[i])]]

(***************************************************************************)
(* GET /api/artworks/{art_id}                                              *)
(***************************************************************************)
get_artwork(t, art_id) ==
    LET found == SelectSeq(t.rows, LAMBDA row : SqlEq(Col(t, row, "id"), Some(art_id)) = "T")
    IN  IF ~HasCol(t.cols, "id") THEN [status |-> 500]
        ELSE IF found = <<>> THEN [status |-> 404]
        ELSE IF ArtworkRaises(found[1]) THEN [status |-> 500]
        ELSE [status |-> 200, artwork |-> Artwork(found[1])]

(***************************************************************************)
(* GET /api/time-periods                                                   *)
(***************************************************************************)
\* COALESCE(start_year, end_year)
Coalesce(x, y) == IF ~IsNull(x) THEN x ELSE y

\* CASE WHEN start_year IS NOT NULL THEN ((start_year / 100) + 1) || 'th Century' ...
CenturyCase(t, row) ==
    IF ~IsNull(Col(t, row, "start_year"))
    THEN Some(ToString(SqlDiv(Val(Col(t, row, "start_year")), 100) + 1) \o "th Century")
    ELSE IF ~IsNull(Col(t, row, "end_year"))
    THEN Some(ToString(SqlDiv(Val(Col(t, row, "end_year")), 100) + 1) \o "th Century")
    ELSE NULL

\* positions of the rows WHERE start_year IS NOT NULL OR end_year IS NOT NULL
DatedRows(t) ==
    {i \in 1..Len(t.rows) :
        ~IsNull(Col(t, t.rows[i], "start_year")) \/ ~IsNull(Col(t, t.rows[i], "end_year"))}

SetMin(S) == CHOOSE m \in S : \A x \in S : m <= x

\* GROUP BY century HAVING century IS NOT NULL, with COUNT(*) and the
\* MIN(COALESCE(start_year, end_year)) the groups are ordered by
CenturyGroups(t) ==
    LET dated == DatedRows(t)
        names == {CenturyCase(t, t.rows[i]) : i \in dated} \ {NULL}
        members(n) == {i \in dated : CenturyCase(t, t.rows[i]) = n}
    IN  {[name |-> Val(n), count |-> Cardinality(members(n)),
          min_year |-> SetMin({Val(Coalesce(Col(t, t.rows[i], "start_year"),
                                            Col(t, t.rows[i], "end_year"))) :
                               i \in members(n)})] : n \in names}

RECURSIVE OrderByMin(_)
OrderByMin(groups) ==
    IF groups = {} THEN <<>>
    ELSE LET g == CHOOSE x \in groups : \A y \in groups : x.min_year <= y.min_year
         IN  <<[name |-> g.name, count |-> g.count]>> \o OrderByMin(groups \ {g})

get_time_periods(t) ==
    IF ~HasCol(t.cols, "start_year") \/ ~HasCol(t.cols, "end_year")
    THEN [status |-> 500]
    ELSE [status |-> 200, periods |-> OrderByMin(CenturyGroups(t))]

(***************************************************************************)
(* Tables and requests the query API is exercised on                       *)
(***************************************************************************)
MaxRows == 3

MaxPage == 3

MaxLimit == 2

\* a 13-column row; the columns no modelled query reads hold NULL
Row13(id, title, artist, sy, ey, bce) ==
    <<Some(id), Some(<<"m">>), Some(title), NULL, artist, NULL, NULL, NULL,
      sy, ey, bce, NULL, NULL>>

\* the same row as the 12-column projection (no is_bce) stores it
Row12(r) == SubSeq(r, 1, 10) \o SubSeq(r, 12, 13)

Columns12 == SubSeq(ArtworkColumns, 1, 10) \o SubSeq(ArtworkColumns, 12, 13)

RowTexts ==
    {<<<<"A", "b">>, NULL>>, <<<<"c">>, NULL>>, <<<<"c">>, Some(<<"a", "b">>)>>}

StartYears == {NULL, Some(-50), Some(50), Some(100), Some(150)}

EndYears == {NULL, Some(50), Some(100), Some(150)}

BceFlags == {NULL, Some(0), Some(1)}

\* every combination of the columns the filters read
FullRows ==
    {Row13("x", tx[1], tx[2], sy, ey, b) :
        tx \in RowTexts, sy \in StartYears, ey \in EndYears, b \in BceFlags}

\* rows of the longer tables
CoreRows ==
    {Row13("k1", <<"A", "b">>, NULL, Some(50), Some(150), Some(0)),
     Row13("k2", <<"c">>, NULL, Some(150), NULL, Some(1)),
     Row13("k3", <<"c">>, Some(<<"a", "b">>), NULL, Some(50), Some(0)),
     Row13("k4", <<"A", "b">>, NULL, NULL, NULL, NULL)}

SeqsUpTo(S, n) == UNION {[1..k -> S] : k \in 0..n}

Tables13 ==
    {[cols |-> ArtworkColumns, rows |-> rs] :
        rs \in SeqsUpTo(FullRows, 1) \cup SeqsUpTo(CoreRows, MaxRows)}

Tables12 ==
    {[cols |-> Columns12, rows |-> [i \in 1..Len(rs) |-> Row12(rs[i])]] :
        rs \in SeqsUpTo(CoreRows, MaxRows)}

Searches == {NULL, Some(<<>>), Some(<<"a", "B">>)}

YearParams == {NULL, Some(100)}

ArtIds == {"x", "k1", "k4", "zz"}

NoReq == [op |-> "none"]

NoResp == [status |-> 0]

(***************************************************************************)
(* The query API as a state machine: a client lists artworks with one      *)
(* filter set and limit and pages through the listing, or calls one of     *)
(* the other endpoints.  The table is only read.                           *)
(***************************************************************************)
Init ==
    /\ table \in Tables13 \cup Tables12
    /\ req = NoReq
    /\ resp = NoResp
    /\ dateIn = NoCall
    /\ dateOut = NoCall
    /\ rowIn = NoCall
    /\ rowOut = NoCall
    /\ csv = NoCall
    /\ merge = NoCall
    /\ ExtIdle

ListRequest(search, page, limit, min_year, max_year, min_is_bce, max_is_bce) ==
    [op |-> "artworks", search |-> search, page |-> page, limit |-> limit,
     min_year |-> min_year, max_year |-> max_year,
     min_is_bce |-> min_is_bce, max_is_bce |-> max_is_bce]

\* first page request of a listing
GetArtworks(search, page, limit, min_year, max_year, min_is_bce, max_is_bce) ==
    /\ req = NoReq
    /\ page >= 1 /\ limit >= 1 /\ limit <= LimitLe
    /\ req' = ListRequest(search, page, limit, min_year, max_year, min_is_bce, max_is_bce)
    /\ resp' = get_artworks(table, req')
    /\ UNCHANGED <<table, dateVars, rowVars, mergeVars, extVars>>

\* another page of the same listing (same filter set and limit)
GetArtworksPage(page) ==
    /\ req.op = "artworks"
    /\ page >= 1
    /\ page # req.page
    /\ req' = [req EXCEPT !.page = page]
    /\ resp' = get_artworks(table, req')
    /\ UNCHANGED <<table, dateVars, rowVars, mergeVars, extVars>>

GetArtwork(art_id) ==
    /\ req = NoReq
    /\ req' = [op |-> "artwork", art_id |-> art_id]
    /\ resp' = get_artwork(table, art_id)
    /\ UNCHANGED <<table, dateVars, rowVars, mergeVars, extVars>>

GetTimePeriods ==
    /\ req = NoReq
    /\ req' = [op |-> "time-periods"]
    /\ resp' = get_time_periods(table)
    /\ UNCHANGED <<table, dateVars, rowVars, mergeVars, extVars>>

Next ==
    \/ \E search \in Searches, page \in 1..MaxPage, limit \in 1..MaxLimit,
          min_year \in YearParams, max_year \in YearParams,
          min_is_bce \in BOOLEAN, max_is_bce \in BOOLEAN :
            GetArtworks(search, page, limit, min_year, max_year, min_is_bce, max_is_bce)
    \/ \E page \in 1..MaxPage : GetArtworksPage(page)
    \/ \E art_id \in ArtIds : GetArtwork(art_id)
    \/ GetTimePeriods

Spec == Init /\ [][Next]_vars

(***************************************************************************)
(* Claims about the query API                                              *)
(***************************************************************************)
SameListing(q1, q2) ==
    /\ q1.op = "artworks" /\ q2.op = "artworks"
    /\ q1.search = q2.search /\ q1.limit = q2.limit
    /\ q1.min_year = q2.min_year /\ q1.max_year = q2.max_year
    /\ q1.min_is_bce = q2.min_is_bce /\ q1.max_is_bce = q2.max_is_bce

\* C1: over an unchanged table and a fixed filter set, every answered page of
\* GET /api/artworks has at most limit artworks, and two answered pages of
\* the same listing report the same total.
C1_PageWithinLimitTotalFixed ==
    [][/\ (req'.op = "artworks" /\ resp'.status = 200)
            => Len(resp'.artworks) <= req'.limit
       /\ (SameListing(req, req') /\ table' = table
             /\ resp.status = 200 /\ resp'.status = 200)
            => resp'.total = resp.total]_vars

\* a full second page of a listing that has more matches than one page holds
C1_Witness ==
    /\ req.op = "artworks" /\ resp.status = 200
    /\ req.page = 2
    /\ Len(resp.artworks) = req.limit
    /\ resp.total > req.limit

\* the year conditions of the claim, in two-valued logic over present values
C4_Lower(t, row, q) ==
    LET sy == Col(t, row, "start_year")
        ey == Col(t, row, "end_year")
        bce == Col(t, row, "is_bce")
    IN  IF q.min_is_bce
        THEN bce = Some(1) /\ ~IsNull(sy) /\ Val(sy) <= Val(q.min_year)
        ELSE \/ bce = Some(0) /\ ~IsNull(sy) /\ Val(sy) >= Val(q.min_year)
             \/ IsNull(sy) /\ ~IsNull(ey) /\ Val(ey) >= Val(q.min_year)

C4_Upper(t, row, q) ==
    LET sy == Col(t, row, "start_year")
        ey == Col(t, row, "end_year")
        bce == Col(t, row, "is_bce")
    IN  IF q.max_is_bce
        THEN bce = Some(1) /\ ~IsNull(ey) /\ Val(ey) >= Val(q.max_year)
        ELSE \/ bce = Some(0) /\ ~IsNull(ey) /\ Val(ey) <= Val(q.max_year)
             \/ IsNull(ey) /\ ~IsNull(sy) /\ Val(sy) <= Val(q.max_year)

C4_Search(t, row, q) ==
    \E c \in {"title", "museum", "artist_name"} :
        /\ ~IsNull(Col(t, row, c))
        /\ Contains(LowerText(Val(Col(t, row, c))), LowerText(Val(q.search)))

C4_Selected(t, row, q) ==
    /\ SearchGiven(q) => C4_Search(t, row, q)
    /\ \/ ~IsNull(q.min_year) /\ C4_Lower(t, row, q)
       \/ ~IsNull(q.max_year) /\ C4_Upper(t, row, q)

C4_Page(t, q) ==
    LET sel == SelectSeq(t.rows, LAMBDA row : C4_Selected(t, row, q))
        first == (q.page - 1) * q.limit + 1
        rows == SubSeq(sel, first, Min2(first + q.limit - 1, Len(sel)))
    IN  [i \in 1..Len(rows) |-> Artwork(rows[i])]

\* C4: with min_year or max_year given, an answered GET /api/artworks counts
\* and lists exactly the rows that satisfy search AND (lower OR upper), each
\* bound as the claim defines it and an absent bound contributing nothing.
C4_YearFilterSelects ==
    (req.op = "artworks" /\ YearGiven(req) /\ resp.status = 200)
      => /\ resp.total = Cardinality({i \in 1..Len(table.rows) :
                                        C4_Selected(table, table.rows[i], req)})
         /\ resp.artworks = C4_Page(table, req)

\* both bounds given, some row selected and some row rejected
C4_Witness ==
    /\ req.op = "artworks" /\ resp.status = 200
    /\ ~IsNull(req.min_year) /\ ~IsNull(req.max_year)
    /\ resp.total >= 1 /\ resp.total < Len(table.rows)
    /\ Len(resp.artworks) >= 1

\* C5: a stored row whose is_bce is NULL is still returned by
\* GET /api/artworks/{id}, with is_bce = false.
C5_NullIsBceReturnedFalse ==
    (/\ req.op = "artwork"
     /\ HasCol(table.cols, "is_bce")
     /\ \E i \in 1..Len(table.rows) :
           /\ Col(table, table.rows[i], "id") = Some(req.art_id)
           /\ IsNull(Col(table, table.rows[i], "is_bce"))
           /\ \A j \in 1..(i - 1) : Col(table, table.rows[j], "id") # Some(req.art_id))
      => (resp.status = 200 /\ resp.artwork.is_bce = FALSE)

\* the buckets of the claim: c = floor(y / 100) + 1, y the start year when
\* present and the end year otherwise; \div is the floor division
C6_Year(t, i) ==
    Val(Coalesce(Col(t, t.rows[i], "start_year"), Col(t, t.rows[i], "end_year")))

C6_Name(y) == ToString((y \div 100) + 1) \o "th Century"

C6_Buckets(t) ==
    {[name |-> C6_Name(C6_Year(t, i)),
      count |-> Cardinality({j \in DatedRows(t) :
                               C6_Name(C6_Year(t, j)) = C6_Name(C6_Year(t, i))}),
      min_year |-> SetMin({C6_Year(t, j) : j \in
                             {k \in DatedRows(t) :
                                C6_Name(C6_Year(t, k)) = C6_Name(C6_Year(t, i))}})] :
        i \in DatedRows(t)}

\* C6: GET /api/time-periods lists, by ascending minimum year, one bucket
\* "{floor(y/100)+1}th Century" per century of a dated row, with its row count.
C6_CenturyBuckets ==
    (req.op = "time-periods" /\ resp.status = 200)
      => /\ {resp.periods[i] : i \in 1..Len(resp.periods)}
              = {[name |-> b.name, count |-> b.count] : b \in C6_Buckets(table)}
         /\ Len(resp.periods) = Cardinality(C6_Buckets(table))
         /\ \A i, j \in 1..Len(resp.periods) :
               i < j => \E a, b \in C6_Buckets(table) :
                           /\ a.name = resp.periods[i].name
                           /\ b.name = resp.periods[j].name
                           /\ a.min_year < b.min_year

(***************************************************************************)
(* DateInfo (data_processing/models/data_models.py)                        *)
(***************************************************************************)
Raise(e) == [raised |-> TRUE, error |-> e]

Return(v) == [raised |-> FALSE, value |-> v]

DateTypes == {"YEAR", "YEAR_RANGE", "CENTURY", "UNKNOWN"}

\* the validator without its BCE branch
validate_year_range_CeOnly(type, start_year, end_year, is_bce) ==
    /\ type = "YEAR_RANGE" /\ ~IsNull(start_year) /\ ~IsNull(end_year)
    /\ Val(end_year) < Val(start_year)

\* TRUE when the model validator raises ValueError
validate_year_range(type, start_year, end_year, is_bce) ==
    /\ type = "YEAR_RANGE" /\ ~IsNull(start_year) /\ ~IsNull(end_year)
    /\ IF is_bce THEN Val(end_year) > Val(start_year)
       ELSE Val(end_year) < Val(start_year)

\* DateInfo(type=..., display_text=..., start_year=..., end_year=..., is_bce=...)
DateInfo(type, display_text, start_year, end_year, is_bce) ==
    IF validate_year_range(type, start_year, end_year, is_bce)
    THEN Raise("ValidationError")
    ELSE Return([type |-> type, display_text |-> display_text,
                 start_year |-> start_year, end_year |-> end_year,
                 is_bce |-> is_bce])

(***************************************************************************)
(* Date text.  A text is a sequence of tokens: a maximal run of digits     *)
(* [t |-> "num", d |-> digits], a dash or en dash, white space, the era    *)
(* mark "bce" / "b.c.", the word "unknown".  The text is the lower-cased   *)
(* one the parser works on.                                                *)
(***************************************************************************)
Num(d) == [t |-> "num", d |-> d]

Tok(t) == [t |-> t, d |-> <<>>]

RECURSIVE IntOf(_)
\* int() of a run of digits
IntOf(d) ==
    IF d = <<>> THEN 0
    ELSE IntOf(SubSeq(d, 1, Len(d) - 1)) * 10 + d[Len(d)]

RECURSIVE DigitsOf(_)
\* the decimal digits of a non-negative integer, as an f-string prints it
DigitsOf(n) == IF n < 10 THEN <<n>> ELSE DigitsOf(n \div 10) \o <<n % 10>>

HasTok(text, t) == \E i \in 1..Len(text) : text[i].t = t

\* re.search(r'(\d+)[-–]\s*(\d+)'): a match starts at token i and its
\* second group is token j
RangeMatch(text, i, j) ==
    /\ i \in 1..Len(text) /\ j \in 1..Len(text)
    /\ text[i].t = "num"
    /\ i + 1 < j
    /\ text[i + 1].t = "dash"
    /\ \A k \in (i + 2)..(j - 1) : text[k].t = "sp"
    /\ text[j].t = "num"

HasRange(text) == \E i, j \in 1..Len(text) : RangeMatch(text, i, j)

\* the leftmost match
RangeStart(text) ==
    CHOOSE i \in 1..Len(text) :
        /\ \E j \in 1..Len(text) : RangeMatch(text, i, j)
        /\ \A i2 \in 1..(i - 1) : ~\E j \in 1..Len(text) : RangeMatch(text, i2, j)

RangeEnd(text) == CHOOSE j \in 1..Len(text) : RangeMatch(text, RangeStart(text), j)

\* an abbreviated end year read as a full number
AbbreviatedEnd_Verbatim(start_year, end) == IntOf(end)

\* the CE branch of the range case: the end year from the end fragment
AbbreviatedEnd(start_year, end) ==
    IF Len(end) = 1 THEN start_year + 1
    ELSE IF Len(end) = 2
    THEN LET e == IntOf(DigitsOf(start_year \div 100) \o end)
         IN  IF e < start_year THEN e + 100 ELSE e
    ELSE IntOf(end)

\* re.findall(r'(\d{4})'): the 4-digit groups of one run of digits
FourDigitGroups(d) ==
    [k \in 1..(Len(d) \div 4) |-> IntOf(SubSeq(d, 4 * k - 3, 4 * k))]

RECURSIVE FindAllYears(_)
FindAllYears(text) ==
    IF text = <<>> THEN <<>>
    ELSE (IF text[1].t = "num" THEN FourDigitGroups(text[1].d) ELSE <<>>)
         \o FindAllYears(Tail(text))

RECURSIVE Insert(_, _)
Insert(x, sorted) ==
    IF sorted = <<>> THEN <<x>>
    ELSE IF x <= sorted[1] THEN <<x>> \o sorted
    ELSE <<sorted[1]>> \o Insert(x, Tail(sorted))

RECURSIVE SortAsc(_)
\* years.sort()
SortAsc(s) == IF s = <<>> THEN <<>> ELSE Insert(s[1], SortAsc(Tail(s)))

Reverse(s) == [i \in 1..Len(s) |-> s[Len(s) + 1 - i]]

RECURSIVE LStrip(_)
LStrip(text) ==
    IF text # <<>> /\ text[1].t = "sp" THEN LStrip(Tail(text)) ELSE text

\* str.strip()
Strip(text) == Reverse(LStrip(Reverse(LStrip(text))))

(***************************************************************************)
(* Cleveland: parse_date                                                   *)
(***************************************************************************)
parse_date(text) ==
    IF HasTok(text, "unknown") \/ ~HasTok(text, "num")
    THEN DateInfo("UNKNOWN", text, NULL, NULL, FALSE)
    ELSE
    LET is_bce == HasTok(text, "bce")
    IN  IF HasRange(text)
        THEN LET start == text[RangeStart(text)].d
                 end == text[RangeEnd(text)].d
                 start_year == IntOf(start)
                 end_year == IF is_bce THEN IntOf(end)
                             ELSE AbbreviatedEnd(start_year, end)
             IN  DateInfo("YEAR_RANGE", text, Some(start_year), Some(end_year), is_bce)
        ELSE LET found == FindAllYears(text)
                 years == IF is_bce THEN Reverse(SortAsc(found)) ELSE SortAsc(found)
             IN  IF found = <<>>
                 THEN DateInfo("UNKNOWN", text, NULL, NULL, FALSE)
                 ELSE IF Len(years) > 1
                 THEN DateInfo("YEAR_RANGE", text, Some(years[1]),
                               Some(years[Len(years)]), is_bce)
                 ELSE DateInfo("YEAR", text, Some(years[1]), Some(years[1]), is_bce)

(***************************************************************************)
(* MoMA: parse_moma_date                                                   *)
(***************************************************************************)
\* re.search(r'(\d{4})'): the first 4-digit group of the text
parse_moma_date(raw_val) ==
    IF IsNull(raw_val) \/ Val(raw_val) = <<>>
    THEN DateInfo("UNKNOWN", <<>>, NULL, NULL, FALSE)
    ELSE LET date_str == Strip(Val(raw_val))
             found == FindAllYears(date_str)
         IN  IF found # <<>>
             THEN DateInfo("YEAR", date_str, Some(found[1]), Some(found[1]), FALSE)
             ELSE DateInfo("UNKNOWN", date_str, NULL, NULL, FALSE)

(***************************************************************************)
(* NGA: parse_nga_date.  A year cell is NULL (NaN), <<n>> (a number) or a  *)
(* text that int() rejects, NotANumber.                                    *)
(***************************************************************************)
NotANumber == <<"n", "a">>

IntRaises(cell) == Len(cell) = 2

parse_nga_date(raw_val, beginyear, endyear) ==
    LET display_text == IF ~IsNull(raw_val) THEN Val(raw_val) ELSE <<>>
    IN  IF IsNull(beginyear) /\ IsNull(endyear)
        THEN DateInfo("UNKNOWN", display_text, NULL, NULL, FALSE)
        ELSE IF IntRaises(beginyear) \/ IntRaises(endyear)
        THEN DateInfo("UNKNOWN", display_text, NULL, NULL, FALSE)
        ELSE IF ~IsNull(beginyear) /\ ~IsNull(endyear) /\ Val(beginyear) # Val(endyear)
        THEN DateInfo("YEAR_RANGE", display_text, beginyear, endyear, FALSE)
        ELSE LET year == IF ~IsNull(beginyear) THEN beginyear ELSE endyear
             IN  DateInfo("YEAR", display_text, year, year, FALSE)

(***************************************************************************)
(* SpecDate: one call of a date parser or of the DateInfo constructor      *)
(***************************************************************************)
MaxTokens == 4

DateTokens ==
    {Num(<<1>>), Num(<<8, 3>>), Num(<<7, 0>>), Num(<<9, 0, 0>>),
     Num(<<1, 9, 8, 0>>), Num(<<1, 0, 0, 0>>),
     Tok("dash"), Tok("sp"), Tok("bce"), Tok("unknown")}

\* two runs of digits are never adjacent: they would be one run
DateTexts ==
    {text \in SeqsUpTo(DateTokens, MaxTokens) :
        \A i \in 1..(Len(text) - 1) : ~(text[i].t = "num" /\ text[i + 1].t = "num")}

NgaYearCells == {NULL, NotANumber, Some(-500), Some(1800), Some(1900)}

SmallYears == {NULL, Some(1), Some(2)}

InitDate ==
    /\ dateIn = NoCall
    /\ dateOut = NoCall
    /\ rowIn = NoCall
    /\ rowOut = NoCall
    /\ csv = NoCall
    /\ merge = NoCall
    /\ table = [cols |-> ArtworkColumns, rows |-> <<>>]
    /\ req = NoReq
    /\ resp = NoResp
    /\ ExtIdle

CallParseDate(text) ==
    /\ dateIn = NoCall
    /\ dateIn' = [op |-> "parse_date", text |-> text]
    /\ dateOut' = parse_date(text)
    /\ UNCHANGED <<apiVars, rowVars, mergeVars, extVars>>

CallParseMomaDate(raw_val) ==
    /\ dateIn = NoCall
    /\ dateIn' = [op |-> "parse_moma_date", raw_val |-> raw_val]
    /\ dateOut' = parse_moma_date(raw_val)
    /\ UNCHANGED <<apiVars, rowVars, mergeVars, extVars>>

CallParseNgaDate(raw_val, beginyear, endyear) ==
    /\ dateIn = NoCall
    /\ dateIn' = [op |-> "parse_nga_date", raw_val |-> raw_val,
                  beginyear |-> beginyear, endyear |-> endyear]
    /\ dateOut' = parse_nga_date(raw_val, beginyear, endyear)
    /\ UNCHANGED <<apiVars, rowVars, mergeVars, extVars>>

ConstructDateInfo(type, start_year, end_year, is_bce) ==
    /\ dateIn = NoCall
    /\ dateIn' = [op |-> "DateInfo", type |-> type, start_year |-> start_year,
                  end_year |-> end_year, is_bce |-> is_bce]
    /\ dateOut' = DateInfo(type, <<>>, start_year, end_year, is_bce)
    /\ UNCHANGED <<apiVars, rowVars, mergeVars, extVars>>

NextDate ==
    \/ \E text \in DateTexts : CallParseDate(text)
    \/ \E text \in DateTexts : CallParseMomaDate(Some(text))
    \/ CallParseMomaDate(NULL)
    \/ \E raw_val \in {NULL, Some(<<Tok("sp")>>)},
          beginyear \in NgaYearCells, endyear \in NgaYearCells :
            CallParseNgaDate(raw_val, beginyear, endyear)
    \/ \E type \in DateTypes, start_year \in SmallYears, end_year \in SmallYears,
          is_bce \in BOOLEAN :
            ConstructDateInfo(type, start_year, end_year, is_bce)

SpecDate == InitDate /\ [][NextDate]_vars

(***************************************************************************)
(* Claims about dates                                                      *)
(***************************************************************************)
Returned(out) == out # NoCall /\ ~out.raised

\* C7: every YEAR_RANGE DateInfo that exists with both years has
\* end_year >= start_year when CE and end_year <= start_year when BCE, and
\* constructing one that violates this raises a validation error instead.
C7_YearRangeOrdered ==
    /\ (/\ Returned(dateOut)
        /\ dateOut.value.type = "YEAR_RANGE"
        /\ ~IsNull(dateOut.value.start_year) /\ ~IsNull(dateOut.value.end_year))
         => IF dateOut.value.is_bce
            THEN Val(dateOut.value.end_year) <= Val(dateOut.value.start_year)
            ELSE Val(dateOut.value.end_year) >= Val(dateOut.value.start_year)
    /\ (/\ dateIn.op = "DateInfo"
        /\ dateIn.type = "YEAR_RANGE"
        /\ ~IsNull(dateIn.start_year) /\ ~IsNull(dateIn.end_year)
        /\ IF dateIn.is_bce THEN Val(dateIn.end_year) > Val(dateIn.start_year)
           ELSE Val(dateIn.end_year) < Val(dateIn.start_year))
         => dateOut = Raise("ValidationError")

\* parse_date produced a BCE range that runs from the larger to the smaller year
C7_Witness ==
    /\ dateIn.op = "parse_date" /\ Returned(dateOut)
    /\ dateOut.value.type = "YEAR_RANGE" /\ dateOut.value.is_bce
    /\ Val(dateOut.value.end_year) < Val(dateOut.value.start_year)

\* C8: every DateInfo a production date parser returns has positive years.
C8_YearsPositive ==
    (dateIn.op \in {"parse_date", "parse_moma_date", "parse_nga_date"} /\ Returned(dateOut))
      => /\ ~IsNull(dateOut.value.start_year) => Val(dateOut.value.start_year) > 0
         /\ ~IsNull(dateOut.value.end_year) => Val(dateOut.value.end_year) > 0

\* the end year the claim gives for a range S-E
C9_EndYear(S, end, is_bce) ==
    IF is_bce THEN IntOf(end)
    ELSE IF Len(end) = 1 THEN S + 1
    ELSE IF Len(end) = 2
    THEN LET e == (S \div 100) * 100 + IntOf(end)
         IN  IF e < S THEN e + 100 ELSE e
    ELSE IntOf(end)

C9_Range(text) ==
    LET S == IntOf(text[RangeStart(text)].d)
        is_bce == HasTok(text, "bce")
    IN  [type |-> "YEAR_RANGE", display_text |-> text, start_year |-> Some(S),
         end_year |-> Some(C9_EndYear(S, text[RangeEnd(text)].d, is_bce)),
         is_bce |-> is_bce]

\* C9 as stated: for every text containing a range S-E, parse_date returns
\* the YEAR_RANGE with start_year = S and the end year of the claim's rule.
C9_RangeAlwaysYearRange ==
    (dateIn.op = "parse_date" /\ HasRange(dateIn.text))
      => dateOut = Return(C9_Range(dateIn.text))

\* C9 amended: the same, for a text without the word "unknown" whose range
\* is in chronological order (end >= start when CE, end <= start when BCE);
\* with "unknown" the result is UNKNOWN, and an inverted range raises.
C9_RangeWhenOrdered ==
    (dateIn.op = "parse_date" /\ HasRange(dateIn.text))
      => LET r == C9_Range(dateIn.text)
             ordered == IF r.is_bce THEN Val(r.end_year) <= Val(r.start_year)
                        ELSE Val(r.end_year) >= Val(r.start_year)
         IN  IF HasTok(dateIn.text, "unknown")
             THEN Returned(dateOut) /\ dateOut.value.type = "UNKNOWN"
             ELSE IF ordered THEN dateOut = Return(r)
             ELSE dateOut = Raise("ValidationError")

\* a two-digit end fragment that rolls into the next century ("1980-70")
C9_Witness ==
    /\ dateIn.op = "parse_date" /\ HasRange(dateIn.text)
    /\ Returned(dateOut) /\ ~dateOut.value.is_bce
    /\ Len(dateIn.text[RangeEnd(dateIn.text)].d) = 2
    /\ dateOut.value.type = "YEAR_RANGE"
    /\ Val(dateOut.value.end_year) = 2070

(***************************************************************************)
(* The unified data model (data_processing/models/data_models.py).         *)
(* A URL text is the record of its parts [scheme, host, path].             *)
(***************************************************************************)
Url(scheme, host, path) == [scheme |-> scheme, host |-> host, path |-> path]

\* pydantic HttpUrl accepts the text
IsHttpUrl(u) == u.scheme \in {"http", "https"} /\ u.host # ""

Artist(name, birth_year, death_year) ==
    [name |-> name, birth_year |-> birth_year, death_year |-> death_year]

\* Image(url=..., copyright=...)
Image(url, copyright) ==
    IF ~IsNull(url) /\ ~IsHttpUrl(Val(url)) THEN Raise("ValidationError")
    ELSE Return([url |-> url, copyright |-> copyright])

\* the artwork _row_to_artwork starts from
BlankArtwork(museum_name) ==
    [id |-> "",
     museum |-> [name |-> museum_name],
     object |-> [name |-> "", creation_date |-> NULL, type |-> NULL],
     artist |-> Artist("Unknown Artist", NULL, NULL),
     images |-> <<>>,
     web_url |-> NULL,
     metadata |-> <<>>]

(***************************************************************************)
(* The column parsers.  row.get(col) of a column the row lacks is None.    *)
(***************************************************************************)
RowGet(row, col) == IF col \in DOMAIN row THEN row[col] ELSE NULL

\* Cleveland creators text "Name (Nationality, YYYY-YYYY), role", given by
\* what the regular expressions extract: [name, life], life NULL or <<b, d>>
parse_creators(raw_val) ==
    LET c == Val(raw_val)
    IN  IF IsNull(c.life) THEN Return(Artist(c.name, NULL, NULL))
        ELSE Return(Artist(c.name, Some(Val(c.life)[1]), Some(Val(c.life)[2])))

\* Cleveland parse_images: one Image from this column's URL
parse_images(raw_val, row) ==
    LET img == Image(raw_val, RowGet(row, "share_license_status"))
    IN  IF img.raised THEN img ELSE Return(<<img.value>>)

\* a MoMA BeginDate / EndDate cell "(dddd)" is the run of digits in the
\* parentheses; re.search(r'\((\d{4})\)') wants exactly four
ParenYear(cell) ==
    IF ~IsNull(cell) /\ Len(Val(cell)) = 4 THEN Some(IntOf(Val(cell))) ELSE NULL

parse_moma_artist(raw_val, row) ==
    Return(Artist(Val(raw_val), ParenYear(RowGet(row, "BeginDate")),
                  ParenYear(RowGet(row, "EndDate"))))

parse_moma_images(raw_val) ==
    LET img == Image(raw_val, NULL)
    IN  IF img.raised THEN img ELSE Return(<<img.value>>)

parse_nga_artist(raw_val) == Return(Artist(Val(raw_val), NULL, NULL))

\* config["parse"](raw_val, row)
Parse(parser, raw_val, row) ==
    CASE parser = "parse_date" -> parse_date(Val(raw_val))
      [] parser = "parse_creators" -> parse_creators(raw_val)
      [] parser = "parse_images" -> parse_images(raw_val, row)
      [] parser = "parse_moma_date" -> parse_moma_date(raw_val)
      [] parser = "parse_moma_artist" -> parse_moma_artist(raw_val, row)
      [] parser = "parse_moma_images" -> parse_moma_images(raw_val)
      [] parser = "parse_nga_date" ->
            parse_nga_date(raw_val, RowGet(row, "beginyear"), RowGet(row, "endyear"))
      [] parser = "parse_nga_artist" -> parse_nga_artist(raw_val)

(***************************************************************************)
(* The processors of the production registry                               *)
(***************************************************************************)
Entry(col, parser, model) == [col |-> col, parse |-> parser, model |-> model]

ClevelandColumnMap ==
    <<Entry("id", "none", "id"),
      Entry("title", "none", "object.name"),
      Entry("type", "none", "object.type"),
      Entry("creation_date", "parse_date", "object.creation_date"),
      Entry("creators", "parse_creators", "artist"),
      Entry("image_web", "parse_images", "images"),
      Entry("image_print", "parse_images", "images"),
      Entry("url", "none", "web_url")>>

ClevelandExclude ==
    {"id", "title", "type", "creation_date", "creators", "image_web",
     "image_print", "image_full", "url"}

MomaColumnMap ==
    <<Entry("ObjectID", "none", "id"),
      Entry("Title", "none", "object.name"),
      Entry("Date", "parse_moma_date", "object.creation_date"),
      Entry("Classification", "none", "object.type"),
      Entry("Artist", "parse_moma_artist", "artist"),
      Entry("ImageURL", "parse_moma_images", "images"),
      Entry("URL", "none", "web_url")>>

MomaExclude ==
    {"ObjectID", "Title", "Date", "Classification", "Artist", "ImageURL",
     "URL", "BeginDate", "EndDate", "ArtistBio"}

NgaColumnMap ==
    <<Entry("objectid", "none", "id"),
      Entry("title", "none", "object.name"),
      Entry("displaydate", "parse_nga_date", "object.creation_date"),
      Entry("medium", "none", "object.type"),
      Entry("attribution", "parse_nga_artist", "artist")>>

NgaExclude ==
    {"objectid", "title", "displaydate", "beginyear", "endyear", "medium",
     "attribution", "attributioninverted", "url"}

\* registry.supported_museums, the keys of FILE_MAPPINGS with a processor
Processor(m) ==
    CASE m = "cleveland_art" ->
            [name |-> "Cleveland Museum of Art", column_map |-> ClevelandColumnMap,
             exclude_from_metadata |-> ClevelandExclude]
      [] m = "moma" ->
            [name |-> "Museum of Modern Art", column_map |-> MomaColumnMap,
             exclude_from_metadata |-> MomaExclude]
      [] m = "national_gallery_art_dc" ->
            [name |-> "National Gallery of Art", column_map |-> NgaColumnMap,
             exclude_from_metadata |-> NgaExclude]

(***************************************************************************)
(* BaseMuseumDataProcessor._row_to_artwork                                 *)
(***************************************************************************)
\* setattr along the dotted path; no validation happens on assignment
_set_model_field(artwork, dotted_path, value) ==
    CASE dotted_path = "id" -> [artwork EXCEPT !.id = value]
      [] dotted_path = "object.name" -> [artwork EXCEPT !.object.name = value]
      [] dotted_path = "object.type" -> [artwork EXCEPT !.object.type = Some(value)]
      [] dotted_path = "object.creation_date" ->
            [artwork EXCEPT !.object.creation_date = Some(value)]
      [] dotted_path = "artist" -> [artwork EXCEPT !.artist = value]
      [] dotted_path = "images" -> [artwork EXCEPT !.images = value]
      [] dotted_path = "web_url" -> [artwork EXCEPT !.web_url = Some(value)]

\* a pass in which a failed parser throws away what earlier columns had set
ApplyColumn_FailureResetsArtwork(row, config, st) ==
    IF config.col \notin DOMAIN row \/ IsNull(row[config.col]) THEN st
    ELSE LET used == st.used_columns \cup {config.col}
             parsed == IF config.parse # "none"
                       THEN Parse(config.parse, row[config.col], row)
                       ELSE Return(Val(row[config.col]))
         IN  IF parsed.raised
             THEN [artwork |-> BlankArtwork(st.artwork.museum.name),
                   used_columns |-> used]
             ELSE [artwork |-> _set_model_field(st.artwork, config.model, parsed.value),
                   used_columns |-> used]

\* one pass of the loop over column_map.items(); st is [artwork, used_columns]
ApplyColumn(row, config, st) ==
    IF config.col \notin DOMAIN row \/ IsNull(row[config.col]) THEN st
    ELSE LET used == st.used_columns \cup {config.col}
             parsed == IF config.parse # "none"
                       THEN Parse(config.parse, row[config.col], row)
                       ELSE Return(Val(row[config.col]))
         IN  IF parsed.raised THEN [st EXCEPT !.used_columns = used]
             ELSE [artwork |-> _set_model_field(st.artwork, config.model, parsed.value),
                   used_columns |-> used]

RECURSIVE ApplyColumnMap(_, _, _, _)
ApplyColumnMap(row, column_map, k, st) ==
    IF k > Len(column_map) THEN st
    ELSE ApplyColumnMap(row, column_map, k + 1, ApplyColumn(row, column_map[k], st))

\* metadata that ignores exclude_from_metadata
_create_metadata_IgnoringExclude(row, used_columns, exclude_from_metadata) ==
    LET keys == {col \in DOMAIN row :
                    col \notin used_columns /\ ~IsNull(row[col])}
    IN  [col \in keys |-> Val(row[col])]

_create_metadata(row, used_columns, exclude_from_metadata) ==
    LET keys == {col \in DOMAIN row :
                    /\ col \notin used_columns
                    /\ col \notin exclude_from_metadata
                    /\ ~IsNull(row[col])}
    IN  [col \in keys |-> Val(row[col])]

BaseRowToArtwork(m, row) ==
    LET proc == Processor(m)
        st == ApplyColumnMap(row, proc.column_map, 1,
                             [artwork |-> BlankArtwork(proc.name), used_columns |-> {}])
        withMeta == [st.artwork EXCEPT
                       !.metadata = _create_metadata(row, st.used_columns,
                                                     proc.exclude_from_metadata)]
    IN  IF withMeta.id = "" /\ "id" \in DOMAIN row /\ ~IsNull(row["id"])
        THEN [withMeta EXCEPT !.id = Val(row["id"])]
        ELSE withMeta

\* NGADataProcessor overrides it to derive web_url from objectid
_row_to_artwork(m, row) ==
    LET artwork == BaseRowToArtwork(m, row)
    IN  IF m = "national_gallery_art_dc" /\ ~IsNull(RowGet(row, "objectid"))
        THEN [artwork EXCEPT !.web_url =
                Some(Url("https", "www.nga.gov", Val(row["objectid"])))]
        ELSE artwork

(***************************************************************************)
(* SpecRow: one source row through the processor of its museum             *)
(***************************************************************************)
RangeText == <<Num(<<1, 9, 8, 0>>), Tok("dash"), Num(<<1>>)>>

InvertedRangeText == <<Num(<<1, 9, 8, 0>>), Tok("dash"), Num(<<9, 0, 0>>)>>

YearText == <<Num(<<1, 9, 8, 0>>)>>

GoodUrl(path) == Url("https", "host", path)

BadUrl == Url("", "", "not a url")

ClevelandRows ==
    [id : {NULL, Some("1")},
     title : {NULL, Some("t")},
     type : {Some("p")},
     creation_date : {NULL, Some(RangeText), Some(InvertedRangeText)},
     creators : {NULL, Some([name |-> "n", life |-> Some(<<1830, 1903>>)])},
     image_web : {NULL, Some(GoodUrl("web")), Some(BadUrl)},
     image_print : {NULL, Some(GoodUrl("print")), Some(BadUrl)},
     image_full : {Some(GoodUrl("full"))},
     url : {NULL, Some(GoodUrl("page")), Some(BadUrl)},
     share_license_status : {NULL, Some("CC0")},
     department : {NULL, Some("d")}]

MomaRows ==
    [ObjectID : {NULL, Some("1")},
     Title : {Some("t")},
     Date : {NULL, Some(YearText), Some(<<Num(<<8, 3>>)>>)},
     Classification : {Some("p")},
     Artist : {NULL, Some("n")},
     ImageURL : {NULL, Some(GoodUrl("img")), Some(BadUrl)},
     URL : {NULL, Some(GoodUrl("page")), Some(BadUrl)},
     BeginDate : {NULL, Some(<<1, 8, 4, 1>>), Some(<<0>>)},
     EndDate : {NULL},
     ArtistBio : {Some("bio")},
     Medium : {NULL, Some("oil")}]

NgaRows ==
    [objectid : {NULL, Some("1")},
     title : {NULL, Some("t")},
     displaydate : {NULL, Some(YearText)},
     medium : {Some("oil")},
     attribution : {NULL, Some("n")},
     beginyear : {NULL, Some(-500), Some(1800), Some(1900)},
     endyear : {NULL, Some(1800), Some(1900)},
     classification : {NULL, Some("c")}]

InitRow ==
    /\ rowIn = NoCall
    /\ rowOut = NoCall
    /\ dateIn = NoCall
    /\ dateOut = NoCall
    /\ csv = NoCall
    /\ merge = NoCall
    /\ table = [cols |-> ArtworkColumns, rows |-> <<>>]
    /\ req = NoReq
    /\ resp = NoResp
    /\ ExtIdle

RowToArtwork(m, row) ==
    /\ rowIn = NoCall
    /\ rowIn' = [op |-> "_row_to_artwork", museum |-> m, row |-> row]
    /\ rowOut' = _row_to_artwork(m, row)
    /\ UNCHANGED <<apiVars, dateVars, mergeVars, extVars>>

NextRow ==
    \/ \E row \in ClevelandRows : RowToArtwork("cleveland_art", row)
    \/ \E row \in MomaRows : RowToArtwork("moma", row)
    \/ \E row \in NgaRows : RowToArtwork("national_gallery_art_dc", row)

SpecRow == InitRow /\ [][NextRow]_vars

(***************************************************************************)
(* Claims about one row                                                    *)
(***************************************************************************)
MappedColumns(m) ==
    {Processor(m).column_map[k].col : k \in 1..Len(Processor(m).column_map)}

\* C10: the metadata of a produced artwork has no column of
\* exclude_from_metadata and none the column map consumed; its keys are
\* exactly the other columns of the row whose value is present, each with
\* the row's value.
C10_MetadataKeys ==
    rowOut # NoCall =>
      LET row == rowIn.row
          keys == DOMAIN rowOut.metadata
          excluded == Processor(rowIn.museum).exclude_from_metadata
          mapped == MappedColumns(rowIn.museum)
      IN  /\ keys \cap excluded = {}
          /\ keys \cap mapped = {}
          /\ keys = {col \in DOMAIN row :
                        col \notin excluded /\ col \notin mapped /\ ~IsNull(row[col])}
          /\ \A col \in keys : rowOut.metadata[col] = Val(row[col])

\* a Cleveland row with an excluded unmapped column (image_full), a mapped
\* column whose parser raised, and a leftover column that reached metadata
C10_Witness ==
    /\ rowOut # NoCall
    /\ rowIn.museum = "cleveland_art"
    /\ ~IsNull(rowIn.row["image_full"])
    /\ rowIn.row["creation_date"] = Some(InvertedRangeText)
    /\ DOMAIN rowOut.metadata = {"share_license_status", "department"}

\* the mapped columns of the row whose parser raised
C11_Failed(m, row) ==
    {k \in 1..Len(Processor(m).column_map) :
        LET config == Processor(m).column_map[k]
        IN  /\ config.col \in DOMAIN row /\ ~IsNull(row[config.col])
            /\ config.parse # "none"
            /\ Parse(config.parse, row[config.col], row).raised}

\* the row as it would be had the failed columns been empty
C11_WithoutFailed(m, row) ==
    LET cols == {Processor(m).column_map[k].col : k \in C11_Failed(m, row)}
    IN  [col \in DOMAIN row |-> IF col \in cols THEN NULL ELSE row[col]]

C11_Field(artwork, dotted_path) ==
    CASE dotted_path = "object.creation_date" -> artwork.object.creation_date
      [] dotted_path = "artist" -> <<artwork.artist>>
      [] dotted_path = "images" -> artwork.images

\* what the claim says of every column: the rest of the row is applied as if
\* the column had been empty, and the column is not a metadata key
C11_OthersApplied ==
    /\ rowOut = _row_to_artwork(rowIn.museum, C11_WithoutFailed(rowIn.museum, rowIn.row))
    /\ \A k \in C11_Failed(rowIn.museum, rowIn.row) :
          Processor(rowIn.museum).column_map[k].col \notin DOMAIN rowOut.metadata

\* C11 as stated: when the parser of a column raises, the row is still
\* emitted, the field of that column has the blank artwork's default, every
\* other mapped column is applied as without the failure, and the failed
\* column is not in metadata.
C11_FailedFieldIsDefault ==
    rowIn.op = "_row_to_artwork" =>
      /\ C11_OthersApplied
      /\ \A k \in C11_Failed(rowIn.museum, rowIn.row) :
            LET path == Processor(rowIn.museum).column_map[k].model
            IN  C11_Field(rowOut, path)
                  = C11_Field(BlankArtwork(Processor(rowIn.museum).name), path)

\* C11 amended: the same, but the field of the failed column has the default
\* only when no other present column of the map writes the same model path;
\* otherwise it has what that other column wrote.
C11_FailedColumnSkipped ==
    rowIn.op = "_row_to_artwork" =>
      /\ C11_OthersApplied
      /\ \A k \in C11_Failed(rowIn.museum, rowIn.row) :
            LET map == Processor(rowIn.museum).column_map
                path == map[k].model
                shared == \E j \in 1..Len(map) :
                             /\ j \notin C11_Failed(rowIn.museum, rowIn.row)
                             /\ map[j].model = path
                             /\ map[j].col \in DOMAIN rowIn.row
                             /\ ~IsNull(rowIn.row[map[j].col])
            IN  ~shared =>
                  C11_Field(rowOut, path)
                    = C11_Field(BlankArtwork(Processor(rowIn.museum).name), path)

\* a Cleveland row whose creation_date parser raised after id and title were
\* applied and before the url was
C11_Witness ==
    /\ rowIn.op = "_row_to_artwork" /\ rowIn.museum = "cleveland_art"
    /\ rowIn.row["creation_date"] = Some(InvertedRangeText)
    /\ IsNull(rowOut.object.creation_date)
    /\ rowOut.id = "1" /\ rowOut.object.name = "t"
    /\ rowOut.web_url = Some(GoodUrl("page"))

(***************************************************************************)
(* The merger (data_processing/merge_datasets.py)                          *)
(***************************************************************************)
DEV_MODE_ROWS == 100

\* load_data(file_path, dev_mode=True): pd.read_csv(..., nrows=DEV_MODE_ROWS)
load_data(file) == SubSeq(file.rows, 1, Min2(Len(file.rows), DEV_MODE_ROWS))

\* BaseMuseumDataProcessor.process_data: one artwork per row, in row order
process_data(m, rows) == [i \in 1..Len(rows) |-> _row_to_artwork(m, rows[i])]

get_unified_data(m, file) == process_data(m, load_data(file))

\* the keys of the dict flatten_artwork returns, in insertion order
FlattenKeys ==
    <<"id", "museum", "title", "type", "artist_name", "artist_birth",
      "artist_death", "date_text", "start_year", "end_year", "url", "image_url">>

\* SimpleMerger.flatten_artwork
flatten_artwork(artwork) ==
    [id |-> Some(artwork.id),
     museum |-> Some(artwork.museum.name),
     title |-> Some(artwork.object.name),
     type |-> artwork.object.type,
     artist_name |-> Some(artwork.artist.name),
     artist_birth |-> artwork.artist.birth_year,
     artist_death |-> artwork.artist.death_year,
     date_text |-> IF ~IsNull(artwork.object.creation_date)
                   THEN Some(Val(artwork.object.creation_date).display_text) ELSE NULL,
     start_year |-> IF ~IsNull(artwork.object.creation_date)
                    THEN Val(artwork.object.creation_date).start_year ELSE NULL,
     end_year |-> IF ~IsNull(artwork.object.creation_date)
                  THEN Val(artwork.object.creation_date).end_year ELSE NULL,
     url |-> artwork.web_url,
     image_url |-> IF artwork.images # <<>>
                   THEN (IF IsNull(artwork.images[1].url) THEN Some("None")
                         ELSE artwork.images[1].url)
                   ELSE NULL]

\* pd.DataFrame(all_artworks) and df.to_sql('artworks', if_exists='replace'):
\* the columns are the dict keys, a row holds the dict's values in key order
save_to_sqlite(all_artworks) ==
    [cols |-> FlattenKeys,
     rows |-> [i \in 1..Len(all_artworks) |->
                 [k \in 1..Len(FlattenKeys) |-> all_artworks[i][FlattenKeys[k]]]]]

(***************************************************************************)
(* SpecMerge: process_museums over the source files of the registry.  A    *)
(* file is missing, unreadable, or holds rows whose ids are distinct       *)
(* within the file (each museum's own primary key).                        *)
(***************************************************************************)
\* ProcessorRegistry._load_processors: the *_processor.py modules of
\* data_processing/processors that have a FILE_MAPPINGS entry
RegisteredMuseums == {"cleveland_art", "national_gallery_art_dc"}

\* registry.supported_museums: the registered museums in the order the
\* directory listing delivered their modules, which the code does not fix
supported_museums ==
    {order \in [1..Cardinality(RegisteredMuseums) -> RegisteredMuseums] :
        \A i, j \in DOMAIN order : i # j => order[i] # order[j]}

MaxId == 2

MaxCsvRows == 2

MergeIds == {ToString(i) : i \in 1..MaxId}

ClevelandRow(id, creation_date) ==
    [id |-> Some(id), title |-> Some("t"), type |-> Some("p"),
     creation_date |-> creation_date, creators |-> NULL,
     image_web |-> Some(GoodUrl("web")), image_print |-> NULL,
     image_full |-> NULL, url |-> Some(GoodUrl("page")),
     share_license_status |-> Some("CC0"), department |-> NULL]

NgaRow(id, beginyear) ==
    [objectid |-> Some(id), title |-> Some("t"), displaydate |-> Some(YearText),
     medium |-> Some("oil"), attribution |-> NULL, beginyear |-> beginyear,
     endyear |-> Some(1800), classification |-> NULL]

MergeRows(m) ==
    CASE m = "cleveland_art" ->
            {ClevelandRow(id, d) : id \in MergeIds,
                                   d \in {Some(RangeText), Some(InvertedRangeText)}}
      [] m = "national_gallery_art_dc" ->
            {NgaRow(id, b) : id \in MergeIds, b \in {Some(-500), Some(1800)}}

IdColumn(m) ==
    CASE m = "cleveland_art" -> "id"
      [] m = "national_gallery_art_dc" -> "objectid"

SourceFiles(m) ==
    {[status |-> "missing", rows |-> <<>>], [status |-> "unreadable", rows |-> <<>>]}
    \cup {[status |-> "ok", rows |-> rows] :
            rows \in {rs \in SeqsUpTo(MergeRows(m), MaxCsvRows) :
                        \A i, j \in 1..Len(rs) :
                            i # j => rs[i][IdColumn(m)] # rs[j][IdColumn(m)]}}

InitMerge ==
    /\ csv \in {f \in [RegisteredMuseums ->
                          UNION {SourceFiles(m) : m \in RegisteredMuseums}] :
                  \A m \in RegisteredMuseums : f[m] \in SourceFiles(m)}
    /\ \E order \in supported_museums :
          merge = [phase |-> "loop", museums |-> order, pos |-> 1,
                   all_artworks |-> <<>>]
    /\ table = [cols |-> <<>>, rows |-> <<>>]
    /\ req = NoReq
    /\ resp = NoResp
    /\ dateIn = NoCall
    /\ dateOut = NoCall
    /\ rowIn = NoCall
    /\ rowOut = NoCall
    /\ ExtIdle

InLoop == merge.phase = "loop" /\ merge.pos <= Len(merge.museums)

\* if not file_path.exists(): continue
SkipMissingFile ==
    /\ InLoop
    /\ csv[merge.museums[merge.pos]].status = "missing"
    /\ merge' = [merge EXCEPT !.pos = @ + 1]
    /\ UNCHANGED <<csv, apiVars, dateVars, rowVars, extVars>>

\* except Exception: continue
SkipFailedMuseum ==
    /\ InLoop
    /\ csv[merge.museums[merge.pos]].status = "unreadable"
    /\ merge' = [merge EXCEPT !.pos = @ + 1]
    /\ UNCHANGED <<csv, apiVars, dateVars, rowVars, extVars>>

\* all_artworks.extend(flatten_artwork(a) for a in get_unified_data(...))
ProcessMuseum ==
    /\ InLoop
    /\ csv[merge.museums[merge.pos]].status = "ok"
    /\ LET artworks == get_unified_data(merge.museums[merge.pos],
                                        csv[merge.museums[merge.pos]])
           flattened == [i \in 1..Len(artworks) |-> flatten_artwork(artworks[i])]
       IN  merge' = [merge EXCEPT !.pos = @ + 1,
                                  !.all_artworks = @ \o flattened]
    /\ UNCHANGED <<csv, apiVars, dateVars, rowVars, extVars>>

\* if not all_artworks: return
NothingToSave ==
    /\ merge.phase = "loop" /\ merge.pos > Len(merge.museums)
    /\ merge.all_artworks = <<>>
    /\ merge' = [merge EXCEPT !.phase = "nothing"]
    /\ UNCHANGED <<csv, apiVars, dateVars, rowVars, extVars>>

SaveResults ==
    /\ merge.phase = "loop" /\ merge.pos > Len(merge.museums)
    /\ merge.all_artworks # <<>>
    /\ table' = save_to_sqlite(merge.all_artworks)
    /\ merge' = [merge EXCEPT !.phase = "saved"]
    /\ UNCHANGED <<csv, req, resp, dateVars, rowVars, extVars>>

NextMerge ==
    \/ SkipMissingFile
    \/ SkipFailedMuseum
    \/ ProcessMuseum
    \/ NothingToSave
    \/ SaveResults

SpecMerge == InitMerge /\ [][NextMerge]_vars

(***************************************************************************)
(* Claims about the merged table                                           *)
(***************************************************************************)
\* C2: every row the merger writes has exactly the 13 columns id, museum,
\* title, type, artist_name, artist_birth, artist_death, date_text,
\* start_year, end_year, is_bce, url, image_url, in that order.
C2_ThirteenColumns ==
    merge.phase = "saved" =>
        /\ table.cols = ArtworkColumns
        /\ \A i \in 1..Len(table.rows) : Len(table.rows[i]) = 13

\* C3: after the merge no two rows of the artworks table share an id.
C3_IdsUnique ==
    merge.phase = "saved" =>
        \A i, j \in 1..Len(table.rows) :
            i # j => table.rows[i][1] # table.rows[j][1]

(***************************************************************************)
(* process_data of every processor.  The processors of src/processors      *)
(* build a row with _create_artwork (Tate: inline in the loop); what that  *)
(* does with a row is the row's own matter and is given with the row:      *)
(* it builds an artwork, returns None, or raises.                          *)
(***************************************************************************)
\* how each processor's process_data loops: guarded is the try/except around
\* the row, skips_none the "if artwork:" before the append
LegacyProcessors ==
    [base_legacy |-> [guarded |-> TRUE, skips_none |-> FALSE],
     cleveland_art |-> [guarded |-> TRUE, skips_none |-> FALSE],
     cmoa |-> [guarded |-> TRUE, skips_none |-> TRUE],
     national_gallery_art_dc |-> [guarded |-> TRUE, skips_none |-> TRUE],
     penn_museum |-> [guarded |-> TRUE, skips_none |-> TRUE],
     qagoma |-> [guarded |-> TRUE, skips_none |-> TRUE],
     rijksmuseum |-> [guarded |-> TRUE, skips_none |-> TRUE],
     tate |-> [guarded |-> FALSE, skips_none |-> FALSE]]

\* self._create_artwork(row) / self._row_to_artwork(row)
_create_artwork(row) ==
    CASE row.build = "artwork" -> Return(Some([id |-> row.key]))
      [] row.build = "none" -> Return(NULL)
      [] row.build = "raises" -> Raise("Exception")

\* the loop over df.iterrows() from row k on, with the artworks so far
RECURSIVE LegacyLoop(_, _, _, _)
LegacyLoop(p, rows, k, unified_data) ==
    IF k > Len(rows) THEN Return(unified_data)
    ELSE LET built == _create_artwork(rows[k])
         IN  IF built.raised
             THEN IF LegacyProcessors[p].guarded
                  THEN LegacyLoop(p, rows, k + 1, unified_data)
                  ELSE built
             ELSE IF LegacyProcessors[p].skips_none /\ IsNull(built.value)
                  THEN LegacyLoop(p, rows, k + 1, unified_data)
                  ELSE LegacyLoop(p, rows, k + 1, Append(unified_data, Val(built.value)))

LegacyProcessData(p, rows) == LegacyLoop(p, rows, 1, <<>>)

(***************************************************************************)
(* SpecProcess: one call of process_data                                   *)
(***************************************************************************)
MaxProcessRows == 3

\* the idle state of the variables of the API, the parsers and the merger
CoreIdle ==
    /\ table = [cols |-> ArtworkColumns, rows |-> <<>>]
    /\ req = NoReq
    /\ resp = NoResp
    /\ dateIn = NoCall
    /\ dateOut = NoCall
    /\ rowIn = NoCall
    /\ rowOut = NoCall
    /\ csv = NoCall
    /\ merge = NoCall

coreVars == <<apiVars, dateVars, rowVars, mergeVars>>

\* only a processor that tests "if artwork:" has a _create_artwork that
\* returns None
LegacyRows(p) ==
    [key : {"1", "2"},
     build : IF LegacyProcessors[p].skips_none THEN {"artwork", "none", "raises"}
             ELSE {"artwork", "raises"}]

InitProcess == CoreIdle /\ ExtIdle

CallLegacyProcessData(p, rows) ==
    /\ call = NoCall
    /\ call' = [op |-> "process_data", processor |-> p, rows |-> rows]
    /\ ret' = LegacyProcessData(p, rows)
    /\ UNCHANGED <<coreVars, embedVars, fetchVars, cliVars>>

CallProcessData(m, rows) ==
    /\ call = NoCall
    /\ call' = [op |-> "get_unified_data", processor |-> m, rows |-> rows]
    /\ ret' = Return(process_data(m, rows))
    /\ UNCHANGED <<coreVars, embedVars, fetchVars, cliVars>>

NextProcess ==
    \/ \E p \in DOMAIN LegacyProcessors :
         \E rows \in SeqsUpTo(LegacyRows(p), MaxProcessRows) :
            CallLegacyProcessData(p, rows)
    \/ \E m \in RegisteredMuseums :
         \E rows \in SeqsUpTo(MergeRows(m), MaxProcessRows) :
            CallProcessData(m, rows)

SpecProcess == InitProcess /\ [][NextProcess]_vars

\* the artworks of the rows that build one, in row order
RECURSIVE C12_Built(_)
C12_Built(rows) ==
    IF rows = <<>> THEN <<>>
    ELSE (IF rows[1].build = "artwork" THEN <<[id |-> rows[1].key]>> ELSE <<>>)
         \o C12_Built(Tail(rows))

\* C12: for every processor, process_data drops the rows whose building
\* raises and returns the artworks of all other rows, in input order.
C12_RowFailureDropsOnlyRow ==
    /\ call.op = "process_data" => ret = Return(C12_Built(call.rows))
    /\ call.op = "get_unified_data" =>
         /\ ~ret.raised
         /\ Len(ret.value) = Len(call.rows)
         /\ \A i \in 1..Len(call.rows) :
               ret.value[i] = _row_to_artwork(call.processor, call.rows[i])

(***************************************************************************)
(* DatasetManager.get_dataset (data_processing/dataset_manager.py)         *)
(***************************************************************************)
\* load_data(file_path, dev_mode): all rows unless dev_mode
LoadData(file, dev_mode) == IF dev_mode THEN load_data(file) ELSE file.rows

\* if limit and limit < len(artworks): artworks = artworks[:limit]
ApplyLimit(artworks, limit) ==
    IF ~IsNull(limit) /\ Val(limit) # 0 /\ Val(limit) < Len(artworks)
    THEN SubSeq(artworks, 1, Val(limit))
    ELSE artworks

\* a.images and len(a.images) > 0 and a.images[0].url
FirstImageHasUrl(a) == a.images # <<>> /\ ~IsNull(a.images[1].url)

\* get_dataset that returns the limited list whatever with_images_only is
get_dataset_Unfiltered(files, dataset_id, limit, with_images_only) ==
    IF dataset_id \notin RegisteredMuseums THEN Raise("ValueError")
    ELSE IF files[dataset_id].status = "missing" THEN Raise("FileNotFoundError")
    ELSE IF files[dataset_id].status = "unreadable" THEN Raise("Exception")
    ELSE Return(ApplyLimit(process_data(dataset_id,
                                        LoadData(files[dataset_id], ~IsNull(limit))),
                           limit))

get_dataset(files, dataset_id, limit, with_images_only) ==
    IF dataset_id \notin RegisteredMuseums THEN Raise("ValueError")
    ELSE IF files[dataset_id].status = "missing" THEN Raise("FileNotFoundError")
    ELSE IF files[dataset_id].status = "unreadable" THEN Raise("Exception")
    ELSE LET artworks == ApplyLimit(process_data(dataset_id,
                                                 LoadData(files[dataset_id], ~IsNull(limit))),
                                    limit)
         IN  IF with_images_only
             THEN Return(SelectSeq(artworks, FirstImageHasUrl))
             ELSE Return(artworks)

(***************************************************************************)
(* SpecDataset: one call of get_dataset over the files of the data         *)
(* directory                                                               *)
(***************************************************************************)
MaxDatasetRows == 2

DatasetRows(m) ==
    CASE m = "cleveland_art" ->
            {[ClevelandRow(id, Some(RangeText)) EXCEPT
                 !.image_web = web, !.image_print = print] :
               id \in MergeIds,
               web \in {NULL, Some(GoodUrl("web")), Some(BadUrl)},
               print \in {NULL, Some(GoodUrl("print"))}}
      [] m = "national_gallery_art_dc" ->
            {NgaRow("1", Some(1800))}

DatasetFiles(m) ==
    {[status |-> "missing", rows |-> <<>>], [status |-> "unreadable", rows |-> <<>>]}
    \cup {[status |-> "ok", rows |-> rows] :
            rows \in {rs \in SeqsUpTo(DatasetRows(m), MaxDatasetRows) :
                        \A k \in 1..Len(rs) :
                            rs[k][IdColumn(m)] = Some(ToString(k))}}

DatasetIds == RegisteredMuseums \cup {"tate"}

Limits == {NULL, Some(0), Some(1), Some(2)}

InitDataset ==
    /\ \E cleveland \in DatasetFiles("cleveland_art"),
          nga \in DatasetFiles("national_gallery_art_dc") :
          csv = [m \in RegisteredMuseums |->
                    IF m = "cleveland_art" THEN cleveland ELSE nga]
    /\ merge = NoCall
    /\ table = [cols |-> ArtworkColumns, rows |-> <<>>]
    /\ req = NoReq
    /\ resp = NoResp
    /\ dateIn = NoCall
    /\ dateOut = NoCall
    /\ rowIn = NoCall
    /\ rowOut = NoCall
    /\ ExtIdle

GetDataset(dataset_id, limit, with_images_only) ==
    /\ call = NoCall
    /\ call' = [op |-> "get_dataset", dataset_id |-> dataset_id, limit |-> limit,
                with_images_only |-> with_images_only]
    /\ ret' = get_dataset(csv, dataset_id, limit, with_images_only)
    /\ UNCHANGED <<coreVars, embedVars, fetchVars, cliVars>>

NextDataset ==
    \E dataset_id \in DatasetIds, limit \in Limits, with_images_only \in BOOLEAN :
        GetDataset(dataset_id, limit, with_images_only)

SpecDataset == InitDataset /\ [][NextDataset]_vars

\* an artwork with an image, at any position, whose URL is present
C13_AnyImageHasUrl(a) == \E i \in 1..Len(a.images) : ~IsNull(a.images[i].url)

\* C13: get_dataset with with_images_only returns exactly the artworks, of
\* those loaded and limited, in their order, that have at least one image
\* whose URL is present.
C13_WithImagesOnly ==
    (call.op = "get_dataset" /\ call.with_images_only /\ ~ret.raised) =>
        ret.value =
          SelectSeq(ApplyLimit(process_data(call.dataset_id,
                                            LoadData(csv[call.dataset_id],
                                                     ~IsNull(call.limit))),
                               call.limit),
                    C13_AnyImageHasUrl)

\* of two Cleveland artworks the first, without an image, was left out
C13_Witness ==
    /\ call.op = "get_dataset" /\ call.with_images_only /\ ~ret.raised
    /\ call.dataset_id = "cleveland_art"
    /\ Len(csv["cleveland_art"].rows) = 2
    /\ IsNull(csv["cleveland_art"].rows[1]["image_web"])
    /\ IsNull(csv["cleveland_art"].rows[1]["image_print"])
    /\ Len(ret.value) = 1
    /\ ret.value[1].id = Val(csv["cleveland_art"].rows[2]["id"])

(***************************************************************************)
(* DatasetManager.check_image_accessibility: check_url.  A response is     *)
(* [raises, status_code, content_type, body]: content_type is the text of  *)
(* the Content-Type header (NULL when the header is absent), body the      *)
(* bytes of the body.                                                      *)
(***************************************************************************)
StartsWith(s, prefix) ==
    Len(s) >= Len(prefix) /\ \A i \in 1..Len(prefix) : s[i] = prefix[i]

ImageSlash == <<"i", "m", "a", "g", "e", "/">>

JpegMagic == <<255, 216>>

PngMagic == <<137, 80, 78, 71, 13, 10, 26, 10>>

Gif87a == <<71, 73, 70, 56, 55, 97>>

Gif89a == <<71, 73, 70, 56, 57, 97>>

Riff == <<82, 73, 70, 70>>

Webp == <<87, 69, 66, 80>>

SvgTag == <<60, 115, 118, 103>>

CHUNK_SIZE == 32

\* next(response.iter_content(chunk_size=32), b'')
FirstChunk(body) == SubSeq(body, 1, Min2(Len(body), CHUNK_SIZE))

\* a signature test that does not know JPEG
is_valid_image_WithoutJpeg(content_start) ==
    \/ StartsWith(content_start, PngMagic)
    \/ StartsWith(content_start, Gif87a) \/ StartsWith(content_start, Gif89a)
    \/ (StartsWith(content_start, Riff) /\ Contains(content_start, Webp))
    \/ Contains(content_start, SvgTag)

is_valid_image(content_start) ==
    \/ StartsWith(content_start, JpegMagic)
    \/ StartsWith(content_start, PngMagic)
    \/ StartsWith(content_start, Gif87a) \/ StartsWith(content_start, Gif89a)
    \/ (StartsWith(content_start, Riff) /\ Contains(content_start, Webp))
    \/ Contains(content_start, SvgTag)

\* response.headers.get('Content-Type', '')
ContentTypeOf(response) ==
    IF IsNull(response.content_type) THEN <<>> ELSE Val(response.content_type)

\* check_url that goes by the bytes alone
check_url_IgnoringContentType(url, response) ==
    IF response.raises
    THEN [url |-> url, accessible |-> FALSE, status |-> "exception"]
    ELSE IF response.status_code >= 400
    THEN [url |-> url, accessible |-> FALSE, status |-> "HTTP error"]
    ELSE IF ~is_valid_image(FirstChunk(response.body))
    THEN [url |-> url, accessible |-> FALSE, status |-> "Invalid image format"]
    ELSE [url |-> url, accessible |-> TRUE, status |-> "status_code"]

\* the (url, success, status) of one URL; status is the kind of reason
check_url(url, response) ==
    IF response.raises
    THEN [url |-> url, accessible |-> FALSE, status |-> "exception"]
    ELSE IF response.status_code >= 400
    THEN [url |-> url, accessible |-> FALSE, status |-> "HTTP error"]
    ELSE IF ~StartsWith(ContentTypeOf(response), ImageSlash)
    THEN [url |-> url, accessible |-> FALSE, status |-> "Not an image"]
    ELSE IF ~is_valid_image(FirstChunk(response.body))
    THEN [url |-> url, accessible |-> FALSE, status |-> "Invalid image format"]
    ELSE [url |-> url, accessible |-> TRUE, status |-> "status_code"]

\* samples: executor.map(check_url, urls) delivers the results in url order
CheckedSamples(urls, web) == [i \in 1..Len(urls) |-> check_url(urls[i], web[urls[i]])]

(***************************************************************************)
(* SpecCheckUrl: the URLs of one dataset checked against the responses     *)
(* their servers give                                                      *)
(***************************************************************************)
MaxUrls == 1

ContentTypes ==
    {NULL,
     Some(ImageSlash \o <<"j", "p", "e", "g">>),
     Some(ImageSlash \o <<"p", "n", "g">>),
     Some(<<"t", "e", "x", "t", "/", "h", "t", "m", "l">>)}

Padding(n) == [i \in 1..n |-> 32]

Bodies ==
    {<<>>,
     JpegMagic \o <<255, 224>>,
     PngMagic \o <<0>>,
     Gif87a,
     Gif89a \o <<1>>,
     Riff \o <<0, 0, 0, 0>> \o Webp,
     Riff \o <<0, 0, 0, 0>>,
     Padding(3) \o SvgTag,
     Padding(CHUNK_SIZE - 2) \o SvgTag,
     <<60, 104, 116, 109, 108>>}

Responses ==
    {[raises |-> TRUE, status_code |-> 0, content_type |-> NULL, body |-> <<>>]}
    \cup [raises : {FALSE}, status_code : {200, 399, 400, 404},
          content_type : ContentTypes, body : Bodies]

\* the sampled URLs, one per image, in sample order
SampleUrls(n) == [i \in 1..n |-> GoodUrl(ToString(i))]

InitCheckUrl == CoreIdle /\ ExtIdle

CheckUrls(urls, web) ==
    /\ call = NoCall
    /\ call' = [op |-> "check_urls", urls |-> urls, web |-> web]
    /\ ret' = CheckedSamples(urls, web)
    /\ UNCHANGED <<coreVars, embedVars, fetchVars, cliVars>>

NextCheckUrl ==
    \E n \in 1..MaxUrls :
        \E web \in [{SampleUrls(n)[i] : i \in 1..n} -> Responses] :
            CheckUrls(SampleUrls(n), web)

SpecCheckUrl == InitCheckUrl /\ [][NextCheckUrl]_vars

\* the first chunk carries one of the JPEG, PNG, GIF, WebP or SVG signatures
C14_Signature(chunk) ==
    \/ StartsWith(chunk, <<255, 216>>)
    \/ StartsWith(chunk, <<137, 80, 78, 71, 13, 10, 26, 10>>)
    \/ StartsWith(chunk, <<71, 73, 70, 56, 55, 97>>)
    \/ StartsWith(chunk, <<71, 73, 70, 56, 57, 97>>)
    \/ (StartsWith(chunk, <<82, 73, 70, 70>>) /\ Contains(chunk, <<87, 69, 66, 80>>))
    \/ Contains(chunk, <<60, 115, 118, 103>>)

C14_Accessible(response) ==
    /\ ~response.raises
    /\ response.status_code < 400
    /\ ~IsNull(response.content_type)
    /\ StartsWith(Val(response.content_type), <<"i", "m", "a", "g", "e", "/">>)
    /\ C14_Signature(SubSeq(response.body, 1, Min2(Len(response.body), 32)))

C15_Jpeg(response) ==
    /\ ~response.raises
    /\ response.status_code < 400
    /\ StartsWith(response.body, <<255, 216>>)

\* C15 as stated: a response with status below 400 whose body begins with
\* FF D8 is recorded as accessible whatever its Content-Type.
C15_JpegAnyContentType ==
    call.op = "check_urls" =>
        \A i \in 1..Len(call.urls) :
            C15_Jpeg(call.web[call.urls[i]]) => ret[i].accessible

\* C15 amended: such a response is recorded as accessible when its
\* Content-Type starts with image/, whatever image type it declares, and as
\* inaccessible ("Not an image") otherwise.
C15_JpegWithImageContentType ==
    call.op = "check_urls" =>
        \A i \in 1..Len(call.urls) :
            C15_Jpeg(call.web[call.urls[i]]) =>
                ret[i].accessible
                  = StartsWith(ContentTypeOf(call.web[call.urls[i]]),
                               <<"i", "m", "a", "g", "e", "/">>)

\* JPEG bytes served as image/png were found accessible
C15_Witness ==
    /\ call.op = "check_urls"
    /\ C15_Jpeg(call.web[call.urls[1]])
    /\ call.web[call.urls[1]].content_type
         = Some(<<"i", "m", "a", "g", "e", "/", "p", "n", "g">>)
    /\ ret[1].accessible

\* ---------------------------------------------------------------------------
\* The CLIP embedding pipeline
\* (src/data_processing/scripts/generate_clip_embeddings.py).
\*
\* An artwork of the pipeline is seen through what process_artwork_batches
\* reads of it: its id, its title, the URL of its first image, and what the
\* fetch of that URL and the embedding of the fetched image give (NULL is
\* Python's None).  The collection is the sequence of its records, one per id.
\* ---------------------------------------------------------------------------

BATCH_SIZE == 16

UPSERT_BATCH_SIZE == 100

MaxArtworks == 3

EmbedArtwork(id, title, image_url, image, embedding) ==
    [id |-> id, title |-> title, image_url |-> image_url, image |-> image,
     embedding |-> embedding]

\* The artworks the runs are made of: three that embed (two of them under the
\* same id), one whose id is not a number, and one for each way of failing.
EmbedArtworks ==
    { EmbedArtwork("1", "a", Some("u1"), Some("img"), Some("vec")),
      EmbedArtwork("1", "b", Some("u2"), Some("img"), Some("vec")),
      EmbedArtwork("2", "c", Some("u3"), Some("img"), Some("vec")),
      EmbedArtwork("x", "d", Some("u4"), Some("img"), Some("vec")),
      EmbedArtwork("2", "e", NULL, NULL, NULL),
      EmbedArtwork("2", "f", Some("u5"), NULL, NULL),
      EmbedArtwork("2", "g", Some("u6"), Some("img"), NULL) }

BatchSizes == {1, 2, BATCH_SIZE}

UpsertBatchSizes == {1, UPSERT_BATCH_SIZE}

\* int(s) of a Python string: the number it spells, ValueError otherwise.
PyInt(s) ==
    CASE s = "1" -> Return(1)
      [] s = "2" -> Return(2)
      [] OTHER -> Raise("ValueError")

\* One entry of an upsert call: the id with its embedding, document, metadata.
UpsertEntry(a) ==
    [id |-> a.id, embedding |-> a.embedding[1], document |-> a.title]

\* The entry an upsert call stores for an id: the last one it lists for it.
LastEntry(entries, id) ==
    LET j == CHOOSE j \in 1..Len(entries) :
                 /\ entries[j].id = id
                 /\ \A k \in (j + 1)..Len(entries) : entries[k].id # id
    IN  entries[j]

Upsert_Appending(records, entries) == records \o entries

\* collection.upsert: each entry replaces the record of its id or is added.
Upsert(records, entries) ==
    LET listed(id) == \E j \in 1..Len(entries) : entries[j].id = id
        stored(id) == \E k \in 1..Len(records) : records[k].id = id
        replaced == [k \in 1..Len(records) |->
                        IF listed(records[k].id)
                        THEN LastEntry(entries, records[k].id)
                        ELSE records[k]]
        added == SelectSeq([j \in 1..Len(entries) |-> j],
                           LAMBDA j : /\ ~stored(entries[j].id)
                                      /\ \A k \in 1..(j - 1) :
                                            entries[k].id # entries[j].id)
    IN  replaced \o [n \in 1..Len(added) |->
                        LastEntry(entries, entries[added[n]].id)]

FailedEmbedding(a, reason) ==
    [id |-> a.id, id_type |-> "str", title |-> a.title, reason |-> reason]

SuccessfulEmbedding(a) ==
    [id |-> a.id, title |-> a.title, image_url |-> a.image_url[1]]

\* The entries the except branch adds to failed_embeddings: the id is the
\* integer int(upsert_ids[j]).
UpsertFailures(entries) ==
    [j \in 1..Len(entries) |->
        [id |-> entries[j].id, id_type |-> "int",
         title |-> entries[j].document, reason |-> "ChromaDB upsert error"]]

AllIdsNumeric(entries) ==
    \A j \in 1..Len(entries) : ~PyInt(entries[j].id).raised

\* successful_embeddings without every entry whose id is in upsert_ids.
WithoutUpsertIds(successful, entries) ==
    SelectSeq(successful,
              LAMBDA s : \A j \in 1..Len(entries) : entries[j].id # s.id)

\* Position of the artwork at pos inside its batch (enumerate's i) and the
\* length of that batch.
IndexInBatch(e) == (e.pos - 1) % e.batch_size

BatchLen(e) ==
    LET start_idx == ((e.pos - 1) \div e.batch_size) * e.batch_size
        end_idx == IF start_idx + e.batch_size < Len(e.artworks)
                   THEN start_idx + e.batch_size ELSE Len(e.artworks)
    IN  end_idx - start_idx

\* The upsert lists when the artwork at pos is reached: emptied at the start
\* of every batch.
PendingAt(e) == IF IndexInBatch(e) = 0 THEN <<>> ELSE e.upsert_entries

Skipped(a) == a.image_url = NULL \/ a.image = NULL \/ a.embedding = NULL

SkipReason(a) ==
    IF a.image_url = NULL THEN "No image URL"
    ELSE IF a.image = NULL THEN "Failed to fetch image"
    ELSE "Failed to generate embedding"

FlushDue(e) ==
    \/ Len(PendingAt(e)) + 1 >= e.upsert_batch_size
    \/ IndexInBatch(e) = BatchLen(e) - 1

\* The loop moves to the next artwork; after the last one the call returns.
Advance(e) ==
    [e EXCEPT !.pos = e.pos + 1,
              !.status = IF e.pos + 1 > Len(e.artworks)
                         THEN "returned" ELSE "running"]

EmbedStart(artworks, batch_size, upsert_batch_size, run, first) ==
    [op |-> "process_artwork_batches", run |-> run, artworks |-> artworks,
     batch_size |-> batch_size, upsert_batch_size |-> upsert_batch_size,
     pos |-> 1, upsert_entries |-> <<>>,
     successful_embeddings |-> <<>>, failed_embeddings |-> <<>>,
     log |-> <<>>, first |-> first,
     status |-> IF artworks = <<>> THEN "returned" ELSE "running"]

ArtworkLists ==
    UNION { [1..n -> EmbedArtworks] : n \in 0..MaxArtworks }

InitEmbed ==
    /\ CoreIdle
    /\ CallIdle
    /\ FetchIdle
    /\ CliIdle
    /\ store = <<>>
    /\ \E artworks \in ArtworkLists, batch_size \in BatchSizes,
          upsert_batch_size \in UpsertBatchSizes :
          embed = EmbedStart(artworks, batch_size, upsert_batch_size, 1, NULL)

EmbedRunning == embed # NoCall /\ embed.status = "running"

\* One of the three `continue` branches: the artwork is recorded as failed.
SkipArtwork ==
    /\ EmbedRunning
    /\ LET a == embed.artworks[embed.pos] IN
        /\ Skipped(a)
        /\ embed' = Advance(
              [embed EXCEPT
                 !.upsert_entries = PendingAt(embed),
                 !.failed_embeddings =
                     Append(@, FailedEmbedding(a, SkipReason(a)))])
    /\ UNCHANGED <<store, coreVars, callVars, fetchVars, cliVars>>

\* The artwork is embedded and joins the upsert lists; no upsert is due.
CollectArtwork ==
    /\ EmbedRunning
    /\ LET a == embed.artworks[embed.pos] IN
        /\ ~Skipped(a)
        /\ ~FlushDue(embed)
        /\ embed' = Advance(
              [embed EXCEPT
                 !.upsert_entries = Append(PendingAt(embed), UpsertEntry(a)),
                 !.successful_embeddings =
                     Append(@, SuccessfulEmbedding(a))])
    /\ UNCHANGED <<store, coreVars, callVars, fetchVars, cliVars>>

\* The artwork is embedded and the upsert of the lists succeeds.
UpsertBatch ==
    /\ EmbedRunning
    /\ LET a == embed.artworks[embed.pos]
           entries == Append(PendingAt(embed), UpsertEntry(a))
       IN
        /\ ~Skipped(a)
        /\ FlushDue(embed)
        /\ store' = Upsert(store, entries)
        /\ embed' = Advance(
              [embed EXCEPT
                 !.upsert_entries = <<>>,
                 !.successful_embeddings =
                     Append(@, SuccessfulEmbedding(a)),
                 !.log = Append(@, "Upserted batch")])
    /\ UNCHANGED <<coreVars, callVars, fetchVars, cliVars>>

\* The upsert raises and the except branch moves the entries to the failed
\* list.
UpsertFails ==
    /\ EmbedRunning
    /\ LET a == embed.artworks[embed.pos]
           entries == Append(PendingAt(embed), UpsertEntry(a))
       IN
        /\ ~Skipped(a)
        /\ FlushDue(embed)
        /\ AllIdsNumeric(entries)
        /\ embed' = Advance(
              [embed EXCEPT
                 !.upsert_entries = <<>>,
                 !.successful_embeddings =
                     WithoutUpsertIds(Append(@, SuccessfulEmbedding(a)),
                                      entries),
                 !.failed_embeddings = @ \o UpsertFailures(entries),
                 !.log = Append(@, "Error upserting batch")])
    /\ UNCHANGED <<store, coreVars, callVars, fetchVars, cliVars>>

\* The upsert raises and int(upsert_ids[j]) raises inside the except branch:
\* the ValueError leaves process_artwork_batches.
UpsertFailureRaises ==
    /\ EmbedRunning
    /\ LET a == embed.artworks[embed.pos]
           entries == Append(PendingAt(embed), UpsertEntry(a))
       IN
        /\ ~Skipped(a)
        /\ FlushDue(embed)
        /\ ~AllIdsNumeric(entries)
        /\ embed' =
              [embed EXCEPT
                 !.upsert_entries = entries,
                 !.successful_embeddings =
                     Append(@, SuccessfulEmbedding(a)),
                 !.log = Append(@, "Error upserting batch"),
                 !.status = "raised"]
    /\ UNCHANGED <<store, coreVars, callVars, fetchVars, cliVars>>

\* The pipeline is run again over the same artworks and the same collection.
RunAgain ==
    /\ embed # NoCall
    /\ embed.status = "returned"
    /\ embed.run = 1
    /\ embed' = EmbedStart(embed.artworks, embed.batch_size,
                           embed.upsert_batch_size, 2,
                           Some([store |-> store, log |-> embed.log]))
    /\ UNCHANGED <<store, coreVars, callVars, fetchVars, cliVars>>

NextEmbed ==
    \/ SkipArtwork
    \/ CollectArtwork
    \/ UpsertBatch
    \/ UpsertFails
    \/ UpsertFailureRaises
    \/ RunAgain

SpecEmbed == InitEmbed /\ [][NextEmbed]_vars

StoreIds == {store[k].id : k \in 1..Len(store)}

\* C16 (as claimed): when the first run over an empty collection has
\* returned, every artwork of the returned successful list is in the
\* collection, put there by a successful upsert.
C16_SuccessfulAreUpserted ==
    (embed # NoCall /\ embed.run = 1 /\ embed.status = "returned")
        => \A k \in 1..Len(embed.successful_embeddings) :
              embed.successful_embeddings[k].id \in StoreIds

\* The step in which an upsert call of the running pipeline failed.
C17_UpsertFailed ==
    /\ embed # NoCall
    /\ embed.status = "running"
    /\ Len(embed'.log) = Len(embed.log) + 1
    /\ embed'.log[Len(embed'.log)] = "Error upserting batch"

\* The entries of the sub-batch whose upsert is attempted in this step.
C17_SubBatch == Append(PendingAt(embed), UpsertEntry(embed.artworks[embed.pos]))

\* C17 (as claimed): when the upsert of a sub-batch fails, whatever the ids,
\* every record of the sub-batch is appended to the failed list with the
\* store's error as reason and is absent from the successful list, the
\* records the successful list held for other sub-batches stay, and the run
\* goes on (it does not raise).
C17_FailedUpsertMovesSubBatch ==
    [][C17_UpsertFailed =>
        /\ embed'.status # "raised"
        /\ Len(embed'.failed_embeddings)
             = Len(embed.failed_embeddings) + Len(C17_SubBatch)
        /\ \A j \in 1..Len(C17_SubBatch) :
              LET f == embed'.failed_embeddings[
                           Len(embed.failed_embeddings) + j]
              IN  /\ f.title = C17_SubBatch[j].document
                  /\ f.reason = "ChromaDB upsert error"
        /\ embed'.successful_embeddings
             = SubSeq(embed.successful_embeddings, 1,
                      Len(embed.successful_embeddings)
                        - Len(PendingAt(embed)))]_vars

\* The second run over the same artworks has returned.
C18_SecondRunReturned ==
    embed # NoCall /\ embed.run = 2 /\ embed.status = "returned"

\* The collection as the first run left it.
C18_AfterFirstRun == embed.first[1].store

\* The collections hold the same ids, as many records, the same record per id.
C18_SameCollection(c1, c2) ==
    /\ {c1[k].id : k \in 1..Len(c1)} = {c2[k].id : k \in 1..Len(c2)}
    /\ Len(c1) = Len(c2)
    /\ \A k \in 1..Len(c1) : \E j \in 1..Len(c2) : c1[k] = c2[j]

\* C18 (as claimed): after the second run over the same artworks with the
\* same fetch and embedding outcomes, the collection holds the same ids, the
\* same number of records and the same record per id as after the first run.
C18_RerunSameCollection ==
    C18_SecondRunReturned => C18_SameCollection(store, C18_AfterFirstRun)

\* C18 (amended): the same holds when, in addition, every upsert call of the
\* second run has the outcome the corresponding call of the first run had.
C18_RerunSameCollectionSameUpserts ==
    (C18_SecondRunReturned /\ embed.log = embed.first[1].log)
        => C18_SameCollection(store, C18_AfterFirstRun)

\* Both runs upserted twice, with success, and the collection holds two ids.
C18_Witness ==
    /\ C18_SecondRunReturned
    /\ embed.log = embed.first[1].log
    /\ embed.log = <<"Upserted batch", "Upserted batch">>
    /\ Len(store) = 2
    /\ store = C18_AfterFirstRun

\* ---------------------------------------------------------------------------
\* fetch_images_concurrently
\* (src/data_processing/scripts/generate_clip_embeddings.py).
\*
\* The calling thread submits one fetch per non-empty URL, the pool's workers
\* run the submitted fetches, as_completed hands the finished futures to the
\* calling thread in the order they finish, and the call returns when the
\* loop over as_completed and the executor's with block are done.  pool.web
\* says, per position, whether the download of that URL gives an image.
\* ---------------------------------------------------------------------------

MAX_WORKERS == 8

MaxFetchUrls == 3

FetchUrls == {NULL, Some("u1"), Some("u2")}

WorkerCounts == {1, 2, MAX_WORKERS}

NoFuture == [state |-> "none"]

\* fetch_image: None for an empty URL and for any error of the download,
\* otherwise the image of that URL.
fetch_image(url, downloads) ==
    IF url = NULL THEN NULL
    ELSE IF downloads THEN Some([image_of |-> url[1]])
    ELSE NULL

FetchCall(urls, web, max_workers) ==
    [op |-> "fetch_images_concurrently", urls |-> urls, web |-> web,
     max_workers |-> max_workers, pc |-> "submit", i |-> 1,
     images |-> [k \in 1..Len(urls) |-> NULL],
     future_to_index |-> [k \in 1..Len(urls) |-> NoFuture],
     yielded |-> {}]

InitFetch ==
    /\ CoreIdle
    /\ CallIdle
    /\ EmbedIdle
    /\ CliIdle
    /\ \E n \in 0..MaxFetchUrls :
         \E urls \in [1..n -> FetchUrls], web \in [1..n -> BOOLEAN],
            max_workers \in WorkerCounts :
            pool = FetchCall(urls, web, max_workers)

Submitted(p) ==
    {k \in 1..Len(p.urls) : p.future_to_index[k].state # "none"}

Running(p) ==
    {k \in 1..Len(p.urls) : p.future_to_index[k].state = "running"}

\* The submit loop reaches the next URL: a future is created for a non-empty
\* one; after the last URL the calling thread enters the as_completed loop.
SubmitFetch ==
    /\ pool # NoCall
    /\ pool.pc = "submit"
    /\ pool' =
         IF pool.i > Len(pool.urls) THEN [pool EXCEPT !.pc = "collect"]
         ELSE IF pool.urls[pool.i] = NULL THEN [pool EXCEPT !.i = @ + 1]
         ELSE [pool EXCEPT !.i = @ + 1,
                           !.future_to_index[pool.i] = [state |-> "pending"]]
    /\ UNCHANGED <<coreVars, callVars, embedVars, cliVars>>

\* A free worker thread takes a submitted fetch.
StartFetch(k) ==
    /\ pool # NoCall
    /\ k \in 1..Len(pool.urls)
    /\ pool.pc \in {"submit", "collect"}
    /\ pool.future_to_index[k].state = "pending"
    /\ Cardinality(Running(pool)) < pool.max_workers
    /\ pool' = [pool EXCEPT !.future_to_index[k] = [state |-> "running"]]
    /\ UNCHANGED <<coreVars, callVars, embedVars, cliVars>>

\* The worker's fetch_image returns: the future is done and holds its result.
FinishFetch(k) ==
    /\ pool # NoCall
    /\ k \in 1..Len(pool.urls)
    /\ pool.pc \in {"submit", "collect"}
    /\ pool.future_to_index[k].state = "running"
    /\ pool' = [pool EXCEPT
                  !.future_to_index[k] =
                      [state |-> "done",
                       result |-> fetch_image(pool.urls[k], pool.web[k])]]
    /\ UNCHANGED <<coreVars, callVars, embedVars, cliVars>>

\* as_completed yields a finished future; its result goes to its index.
CollectResult(k) ==
    /\ pool # NoCall
    /\ k \in 1..Len(pool.urls)
    /\ pool.pc = "collect"
    /\ pool.future_to_index[k].state = "done"
    /\ k \notin pool.yielded
    /\ pool' = [pool EXCEPT
                  !.images[k] = pool.future_to_index[k].result,
                  !.yielded = @ \cup {k}]
    /\ UNCHANGED <<coreVars, callVars, embedVars, cliVars>>

ReturnImages_WithoutWaiting ==
    /\ pool # NoCall
    /\ pool.pc = "collect"
    /\ pool' = [pool EXCEPT !.pc = "returned"]
    /\ UNCHANGED <<coreVars, callVars, embedVars, cliVars>>

\* as_completed is exhausted once every future was yielded; the with block
\* ends and the images are returned.
ReturnImages ==
    /\ pool # NoCall
    /\ pool.pc = "collect"
    /\ pool.yielded = Submitted(pool)
    /\ pool' = [pool EXCEPT !.pc = "returned"]
    /\ UNCHANGED <<coreVars, callVars, embedVars, cliVars>>

NextFetch ==
    \/ SubmitFetch
    \/ \E k \in 1..MaxFetchUrls : StartFetch(k)
    \/ \E k \in 1..MaxFetchUrls : FinishFetch(k)
    \/ \E k \in 1..MaxFetchUrls : CollectResult(k)
    \/ ReturnImages

SpecFetch == InitFetch /\ [][NextFetch]_vars

C19_Returned == pool # NoCall /\ pool.pc = "returned"

\* C19: whatever the order in which the workers finish, the returned list is
\* as long as urls, position i holds what fetching urls[i] gives (no image for
\* an empty URL or a failed fetch), whatever happened to the other fetches,
\* and at the return every submitted fetch has completed.
C19_ImagesByIndex ==
    C19_Returned =>
        /\ Len(pool.images) = Len(pool.urls)
        /\ \A k \in 1..Len(pool.urls) :
              pool.images[k] = fetch_image(pool.urls[k], pool.web[k])
        /\ \A k \in Submitted(pool) : pool.future_to_index[k].state = "done"

\* Three fetches were submitted to two workers, the second failed, and the
\* call has returned.
C19_Witness ==
    /\ C19_Returned
    /\ Len(pool.urls) = 3
    /\ pool.max_workers = 2
    /\ pool.urls[1] = Some("u1")
    /\ pool.urls[2] = Some("u2")
    /\ pool.urls[3] = Some("u2")
    /\ pool.web = <<TRUE, FALSE, TRUE>>
    /\ pool.images = <<Some([image_of |-> "u1"]), NULL, Some([image_of |-> "u2"])>>

\* ---------------------------------------------------------------------------
\* The vector search API (src/web_app/backend/vector_search_api.py).
\*
\* The text collection is seen from the query: the sequence of its records,
\* nearest first, each with the metadata the generation pipeline wrote
\* (src/data_processing/generate_embeddings.py: a number as its text, an
\* absent number as "") and its distance to the query.  Distances and scores
\* are counted in tenths.
\* ---------------------------------------------------------------------------

MaxNeighbours == 3

MaxSearchPage == 2

MaxSearchLimit == 2

SearchIds == {"1", "2"}

\* What the pipeline stores for artist_birth: str(row[5]), or "" when absent.
StoredBirths == {"", "1850"}

Distances == {0, 3, 12}

TextRecords ==
    [id : SearchIds, artist_birth : StoredBirths, distance : Distances]

\* Collections of up to MaxNeighbours records, nearest first.
TextCollections ==
    UNION { { c \in [1..n -> TextRecords] :
                \A k \in 1..(n - 1) : c[k].distance <= c[k + 1].distance }
            : n \in 0..MaxNeighbours }

\* text_collection.query(n_results): the n_results nearest records, fewer
\* when the collection is smaller; a number of results below 1 is refused.
Query(collection, n_results) ==
    IF n_results < 1 THEN Raise("ValueError")
    ELSE Return(SubSeq(collection, 1,
                       IF n_results < Len(collection)
                       THEN n_results ELSE Len(collection)))

\* Validation of an Optional[int] field of SearchResult given a string.
OptionalInt(v) ==
    CASE v = "1850" -> Return(Some(1850))
      [] OTHER -> Raise("ValidationError")

\* SearchResult(...) of one neighbour: score = 1 - distance.
ToSearchResult(record) ==
    LET artist_birth == OptionalInt(record.artist_birth) IN
    IF artist_birth.raised THEN Raise("ValidationError")
    ELSE Return([id |-> record.id, artist_birth |-> artist_birth.value,
                 score |-> 10 - record.distance])

\* The except branch: the empty page with total 0.
SearchFailed(n_results) ==
    [results |-> <<>>, total |-> 0, n_results |-> n_results]

\* VectorSearchAPI.search; n_results is what it asked of the collection.
search(collection, embeds, page, limit) ==
    LET offset == (page - 1) * limit
        search_limit == offset + limit
        results == Query(collection, search_limit)
    IN  IF ~embeds THEN SearchFailed(NULL)
        ELSE IF results.raised THEN SearchFailed(Some(search_limit))
        ELSE IF \E k \in 1..Len(results.value) :
                    ToSearchResult(results.value[k]).raised
        THEN SearchFailed(Some(search_limit))
        ELSE LET search_results ==
                     [k \in 1..Len(results.value) |->
                         ToSearchResult(results.value[k]).value]
                 total == Len(search_results)
                 last == IF offset + limit < total
                         THEN offset + limit ELSE total
             IN  [results |-> SubSeq(search_results, offset + 1, last),
                  total |-> total, n_results |-> Some(search_limit)]

InitSearch == CoreIdle /\ ExtIdle

Search(collection, embeds, page, limit) ==
    /\ call = NoCall
    /\ call' = [op |-> "search", collection |-> collection,
                embeds |-> embeds, page |-> page, limit |-> limit]
    /\ ret' = search(collection, embeds, page, limit)
    /\ UNCHANGED <<coreVars, embedVars, fetchVars, cliVars>>

NextSearch ==
    \E collection \in TextCollections, embeds \in BOOLEAN,
       page \in 1..MaxSearchPage, limit \in 1..MaxSearchLimit :
        Search(collection, embeds, page, limit)

SpecSearch == InitSearch /\ [][NextSearch]_vars

\* The neighbours the collection gives for page*limit requested results.
C20_Neighbours ==
    SubSeq(call.collection, 1,
           IF call.page * call.limit < Len(call.collection)
           THEN call.page * call.limit ELSE Len(call.collection))

\* C20 (as claimed): a search whose query was embedded asks the text
\* collection for page*limit neighbours, returns as total the number of
\* neighbours retrieved, and as results the neighbours at positions
\* [(page-1)*limit, page*limit) in store order, each with score 1 - distance.
C20_PageOfNeighbours ==
    (call.op = "search" /\ call.embeds) =>
        LET offset == (call.page - 1) * call.limit
            size == IF Len(C20_Neighbours) > offset
                    THEN Len(C20_Neighbours) - offset ELSE 0
        IN  /\ ret.n_results = Some(call.page * call.limit)
            /\ ret.total = Len(C20_Neighbours)
            /\ ret.total <= call.page * call.limit
            /\ Len(ret.results) = size
            /\ Len(ret.results) <= call.limit
            /\ \A k \in 1..size :
                  /\ ret.results[k].id = C20_Neighbours[offset + k].id
                  /\ ret.results[k].score
                       = 10 - C20_Neighbours[offset + k].distance

\* The artist_birth a SearchResult should carry for a stored record: absent
\* for the "" the pipeline writes when the source row has none.
C21_Birth(record) ==
    IF record.artist_birth = "" THEN NULL ELSE Some(1850)

\* C21 (as claimed): every record the pipeline wrote, also one whose numeric
\* field is absent in the source row, is mapped into a SearchResult with the
\* absent field absent and is returned; it does not turn the response into
\* the empty result with total 0.
C21_AbsentNumbersMapped ==
    (call.op = "search" /\ call.embeds) =>
        LET offset == (call.page - 1) * call.limit IN
        /\ (C20_Neighbours # <<>>) => ret.total > 0
        /\ \A k \in 1..Len(C20_Neighbours) :
              (k > offset /\ k <= offset + call.limit) =>
                  /\ k - offset <= Len(ret.results)
                  /\ ret.results[k - offset].artist_birth
                       = C21_Birth(C20_Neighbours[k])

\* ---------------------------------------------------------------------------
\* The embedding evaluation tool
\* (src/data_processing/scripts/evaluate_embeddings.py).
\*
\* A Python float that is the quotient of two small integers is kept as the
\* pair [num, den]; two such floats are equal when the fractions are.
\* ---------------------------------------------------------------------------

MaxResultIds == 4

Ratio(num, den) == [num |-> num, den |-> den]

SameFloat(x, y) == x.num * y.den = y.num * x.den

ResultSets == SUBSET (1..MaxResultIds)

jaccard_similarity_OverFirstSet(set1, set2) ==
    IF set1 = {} /\ set2 = {} THEN Ratio(1, 1)
    ELSE IF Cardinality(set1) > 0
         THEN Ratio(Cardinality(set1 \cap set2), Cardinality(set1))
         ELSE Ratio(0, 1)

\* CLIPEvaluator.jaccard_similarity
jaccard_similarity(set1, set2) ==
    IF set1 = {} /\ set2 = {} THEN Ratio(1, 1)
    ELSE LET intersection == Cardinality(set1 \cap set2)
             union == Cardinality(set1 \cup set2)
         IN  IF union > 0 THEN Ratio(intersection, union) ELSE Ratio(0, 1)

InitJaccard == CoreIdle /\ ExtIdle

\* The similarities of one pair of result sets, as
\* evaluate_retrieval_consistency could ask for them.
Jaccard(set1, set2) ==
    /\ call = NoCall
    /\ call' = [op |-> "jaccard_similarity", set1 |-> set1, set2 |-> set2]
    /\ ret' = [forward |-> jaccard_similarity(set1, set2),
               backward |-> jaccard_similarity(set2, set1),
               self |-> jaccard_similarity(set1, set1)]
    /\ UNCHANGED <<coreVars, embedVars, fetchVars, cliVars>>

NextJaccard == \E set1 \in ResultSets, set2 \in ResultSets : Jaccard(set1, set2)

SpecJaccard == InitJaccard /\ [][NextJaccard]_vars

\* C22: the similarity is symmetric, is 1.0 of a set with itself (the empty
\* set too), is |A n B| / |A u B| when the union is not empty, and lies in
\* [0, 1].
C22_JaccardLaws ==
    (call.op = "jaccard_similarity") =>
        /\ SameFloat(ret.forward, ret.backward)
        /\ SameFloat(ret.self, Ratio(1, 1))
        /\ (call.set1 \cup call.set2 # {}) =>
              SameFloat(ret.forward,
                        Ratio(Cardinality(call.set1 \cap call.set2),
                              Cardinality(call.set1 \cup call.set2)))
        /\ ret.forward.den > 0
        /\ ret.forward.num >= 0
        /\ ret.forward.num <= ret.forward.den

\* Two overlapping, different result sets: similarity 1/3 both ways.
C22_Witness ==
    /\ call.op = "jaccard_similarity"
    /\ call.set1 = {1, 2}
    /\ call.set2 = {2, 3}
    /\ ret.forward = Ratio(1, 3)
    /\ ret.backward = Ratio(1, 3)

\* ---------------------------------------------------------------------------
\* CLIPEvaluator.evaluate_synthetic_queries.  artwork_queries is the sequence
\* of the dict's items, each [artwork_id, results]: results holds, per query
\* of that artwork, the list of ids self.search returned for it.
\* ---------------------------------------------------------------------------

MaxTopK == 2

MaxEvalArtworks == 2

MaxQueries == 2

EvalIds == {"a1", "a2", "x"}

\* What self.search can return for top_k: at most top_k ids, none twice.
SearchResults(top_k) ==
    {r \in SeqsUpTo(EvalIds, top_k) :
        \A i, j \in 1..Len(r) : r[i] = r[j] => i = j}

\* results.index(artwork_id) + 1, for an id that is in results.
RankOf(results, artwork_id) ==
    CHOOSE rank \in 1..Len(results) :
        /\ results[rank] = artwork_id
        /\ \A i \in 1..(rank - 1) : results[i] # artwork_id

InResults(results, artwork_id) ==
    \E i \in 1..Len(results) : results[i] = artwork_id

\* The queries, as pairs <<artwork, query>> of positions.
AllQueries(artwork_queries) ==
    {aq \in (1..Len(artwork_queries)) \X (1..MaxQueries) :
        aq[2] <= Len(artwork_queries[aq[1]].results)}

\* The queries that added 1 to success_counts[k].
CountedAt(artwork_queries, k) ==
    {aq \in AllQueries(artwork_queries) :
        LET item == artwork_queries[aq[1]]
            results == item.results[aq[2]]
        IN  /\ InResults(results, item.artwork_id)
            /\ RankOf(results, item.artwork_id) <= k}

\* overall.success_at_k: one entry per key of the defaultdict success_counts,
\* a key existing once a query was counted for it.
success_at_k(artwork_queries, top_k) ==
    LET total_queries == Cardinality(AllQueries(artwork_queries))
        keys == {k \in 1..top_k : CountedAt(artwork_queries, k) # {}}
    IN  [k \in keys |->
            Ratio(Cardinality(CountedAt(artwork_queries, k)), total_queries)]

evaluate_synthetic_queries(artwork_queries, top_k) ==
    [success_at_k |-> success_at_k(artwork_queries, top_k),
     total_queries |-> Cardinality(AllQueries(artwork_queries)),
     total_artworks |-> Len(artwork_queries)]

\* The dicts of up to MaxEvalArtworks artworks, item n being artwork "a<n>".
ArtworkQueries(top_k) ==
    UNION { { aqs \in [1..n -> [artwork_id : {"a1", "a2"},
                                results : SeqsUpTo(SearchResults(top_k),
                                                   MaxQueries)]] :
                \A i \in 1..n : aqs[i].artwork_id = "a" \o ToString(i) }
            : n \in 0..MaxEvalArtworks }

InitSynthetic == CoreIdle /\ ExtIdle

EvaluateSyntheticQueries(artwork_queries, top_k) ==
    /\ call = NoCall
    /\ call' = [op |-> "evaluate_synthetic_queries",
                artwork_queries |-> artwork_queries, top_k |-> top_k]
    /\ ret' = evaluate_synthetic_queries(artwork_queries, top_k)
    /\ UNCHANGED <<coreVars, embedVars, fetchVars, cliVars>>

NextSynthetic ==
    \E top_k \in 1..MaxTopK :
        \E artwork_queries \in ArtworkQueries(top_k) :
            EvaluateSyntheticQueries(artwork_queries, top_k)

SpecSynthetic == InitSynthetic /\ [][NextSynthetic]_vars

\* The queries of the call whose target is at rank <= k.
C23_Found(k) == CountedAt(call.artwork_queries, k)

\* C23 (as claimed): success_at_k holds a value for every K from 1 to top_k,
\* the fraction of all queries whose target was found at rank <= K, and the
\* values do not decrease with K.
C23_SuccessAtEveryK ==
    (call.op = "evaluate_synthetic_queries" /\ ret.total_queries > 0) =>
        /\ DOMAIN ret.success_at_k = 1..call.top_k
        /\ \A k \in 1..call.top_k :
              SameFloat(ret.success_at_k[k],
                        Ratio(Cardinality(C23_Found(k)), ret.total_queries))
        /\ \A k \in 1..(call.top_k - 1) :
              ret.success_at_k[k].num * ret.success_at_k[k + 1].den
                 <= ret.success_at_k[k + 1].num * ret.success_at_k[k].den

\* ---------------------------------------------------------------------------
\* The interactive search CLI
\* (src/data_processing/scripts/search_embeddings.py, interactive_cli).
\*
\* A line typed by the user is the sequence of its words, stripped of the
\* surrounding blanks.  Each pass of the while loop is one step: cli keeps
\* the loop's local variables, the line just read, what list_collections gave
\* during the pass (NULL when it was not called) and the search the pass ran
\* (NULL when it ran none).
\* ---------------------------------------------------------------------------

MaxHistory == 2

CollectionNames == {"A", "B"}

UserInputs ==
    {<<"exit">>, <<"help">>, <<"history">>, <<"collections">>,
     <<"top", "7">>, <<"top", "0">>, <<"top", "x">>,
     <<"collection", "A">>, <<"collection", "B">>, <<"collection", "Z">>,
     <<"collection">>, <<"images", "on">>, <<"images", "off">>,
     <<"sunset">>, <<>>}

\* What list_collections can give: the names of the live collections, or an
\* error.
Listings == {Raise("Exception")} \cup {Return(names) : names \in SUBSET CollectionNames}

\* The branch of the if/elif chain a line takes.
Dispatch(user_input) ==
    CASE user_input \in {<<"exit">>, <<"quit">>, <<"q">>} -> "exit"
      [] user_input \in {<<"help">>, <<"?">>, <<"h">>, <<"clear">>, <<"cls">>,
                         <<"history">>, <<"collections">>} -> "show"
      [] Len(user_input) >= 2 /\ user_input[1] = "top" -> "top"
      [] Len(user_input) >= 2 /\ user_input[1] = "save" -> "show"
      [] Len(user_input) >= 2 /\ user_input[1] = "collection" -> "collection"
      [] user_input \in {<<"images", "on">>, <<"images", "off">>} -> "images"
      [] user_input # <<>> -> "query"
      [] OTHER -> "show"

\* int(user_input.split()[1]) of `top N`.
TopArg(word) ==
    CASE word = "7" -> Return(7)
      [] word = "0" -> Return(0)
      [] OTHER -> Raise("ValueError")

change_collection_Unchecked(collection_name, new_collection, collections) ==
    IF collections.raised THEN collection_name ELSE new_collection

\* The `collection NAME` branch: the name is taken when the live list has it.
change_collection(collection_name, new_collection, collections) ==
    IF collections.raised THEN collection_name
    ELSE IF new_collection \in collections.value THEN new_collection
    ELSE collection_name

CliStart(collection_name, top_k, show_images) ==
    [op |-> "interactive_cli", collection_name |-> collection_name,
     top_k |-> top_k, show_images |-> show_images, history |-> <<>>,
     running |-> TRUE, user_input |-> <<>>, collections |-> NULL,
     searched |-> NULL]

InitCli ==
    /\ CoreIdle
    /\ CallIdle
    /\ EmbedIdle
    /\ FetchIdle
    /\ \E collection_name \in CollectionNames, show_images \in BOOLEAN :
          cli = CliStart(collection_name, 5, show_images)

CliReads(user_input, kind) ==
    /\ cli # NoCall
    /\ cli.running
    /\ Dispatch(user_input) = kind

\* What every pass sets before its branch runs.
Read(user_input) ==
    [cli EXCEPT !.user_input = user_input, !.collections = NULL,
                !.searched = NULL]

Exit(user_input) ==
    /\ CliReads(user_input, "exit")
    /\ cli' = [Read(user_input) EXCEPT !.running = FALSE]
    /\ UNCHANGED <<coreVars, callVars, embedVars, fetchVars>>

\* help, clear, history, save, collections and the empty line print or write
\* a file and change no setting.
Show(user_input) ==
    /\ CliReads(user_input, "show")
    /\ cli' = Read(user_input)
    /\ UNCHANGED <<coreVars, callVars, embedVars, fetchVars>>

SetTopK(user_input) ==
    /\ CliReads(user_input, "top")
    /\ LET new_top_k == TopArg(user_input[2]) IN
       cli' = [Read(user_input) EXCEPT
                 !.top_k = IF ~new_top_k.raised /\ new_top_k.value > 0
                           THEN new_top_k.value ELSE @]
    /\ UNCHANGED <<coreVars, callVars, embedVars, fetchVars>>

ChangeCollection(user_input, collections) ==
    /\ CliReads(user_input, "collection")
    /\ cli' = [Read(user_input) EXCEPT
                 !.collections = Some(collections),
                 !.collection_name =
                     change_collection(@, user_input[2], collections)]
    /\ UNCHANGED <<coreVars, callVars, embedVars, fetchVars>>

SetImages(user_input) ==
    /\ CliReads(user_input, "images")
    /\ cli' = [Read(user_input) EXCEPT
                 !.show_images = (user_input = <<"images", "on">>)]
    /\ UNCHANGED <<coreVars, callVars, embedVars, fetchVars>>

\* Any other line is a query: searched against collection_name with top_k,
\* and added to the history unless the search or the display raised.
SearchQuery(user_input, succeeds) ==
    /\ CliReads(user_input, "query")
    /\ Len(cli.history) < MaxHistory
    /\ cli' = [Read(user_input) EXCEPT
                 !.searched = Some([query |-> user_input,
                                    collection_name |-> cli.collection_name,
                                    top_k |-> cli.top_k]),
                 !.history = IF succeeds THEN Append(@, user_input) ELSE @]
    /\ UNCHANGED <<coreVars, callVars, embedVars, fetchVars>>

NextCli ==
    \/ \E user_input \in UserInputs : Exit(user_input)
    \/ \E user_input \in UserInputs : Show(user_input)
    \/ \E user_input \in UserInputs : SetTopK(user_input)
    \/ \E user_input \in UserInputs, collections \in Listings :
          ChangeCollection(user_input, collections)
    \/ \E user_input \in UserInputs : SetImages(user_input)
    \/ \E user_input \in UserInputs, succeeds \in BOOLEAN :
          SearchQuery(user_input, succeeds)

SpecCli == InitCli /\ [][NextCli]_vars

\* The pass read a `collection NAME` line.
C24_CollectionCommand ==
    Len(cli'.user_input) >= 2 /\ cli'.user_input[1] = "collection"

\* NAME was in the live collection list the pass obtained.
C24_Known ==
    /\ ~cli'.collections[1].raised
    /\ cli'.user_input[2] \in cli'.collections[1].value

\* C24: in every pass of the loop, a `collection NAME` whose NAME is in the
\* live list makes NAME the active collection; one with an unknown NAME, or
\* whose listing failed, leaves the active collection, top_k, the image flag
\* and the history unchanged; no other line changes the active collection;
\* and a query is searched against the active collection.
C24_ActiveCollection ==
    [][(cli # NoCall /\ cli.running) =>
        /\ (C24_CollectionCommand /\ C24_Known)
              => cli'.collection_name = cli'.user_input[2]
        /\ (C24_CollectionCommand /\ ~C24_Known)
              => /\ cli'.collection_name = cli.collection_name
                 /\ cli'.top_k = cli.top_k
                 /\ cli'.show_images = cli.show_images
                 /\ cli'.history = cli.history
        /\ ~C24_CollectionCommand
              => cli'.collection_name = cli.collection_name
        /\ (cli'.searched # NULL)
              => cli'.searched[1].collection_name = cli.collection_name]_vars

\* After a refused `collection Z` the last line, a query, was searched
\* against B, the collection an earlier command had switched to.
C24_Witness ==
    /\ cli # NoCall
    /\ cli.searched # NULL
    /\ cli.searched[1].collection_name = "B"
    /\ cli.collection_name = "B"
    /\ cli.history = <<<<"sunset">>, <<"sunset">>>>

\* C25 (as claimed): the web_url of an artwork produced by the Cleveland or
\* the MoMA processor is absent or a well-formed URL (scheme and host); a
\* malformed value of the row's URL column is never carried as web_url.
C25_WebUrlWellFormed ==
    (rowIn.op = "_row_to_artwork"
        /\ rowIn.museum \in {"cleveland_art", "moma"}) =>
        \/ IsNull(rowOut.web_url)
        \/ IsHttpUrl(Val(rowOut.web_url))


\* C26: for every NGA row the produced artwork's creation date is of type
\* YEAR_RANGE with start = beginyear and end = endyear when both years are
\* present and different, of type YEAR when exactly one is present or both
\* are equal, and of type UNKNOWN when neither is present.
C26_DateType(row) ==
    IF IsNull(row.beginyear) /\ IsNull(row.endyear) THEN "UNKNOWN"
    ELSE IF ~IsNull(row.beginyear) /\ ~IsNull(row.endyear)
            /\ Val(row.beginyear) # Val(row.endyear)
    THEN "YEAR_RANGE"
    ELSE "YEAR"

C26_NgaCreationDate ==
    (rowIn.op = "_row_to_artwork" /\ rowIn.museum = "national_gallery_art_dc") =>
        LET row == rowIn.row
            date == rowOut.object.creation_date
        IN  /\ ~IsNull(date)
            /\ Val(date).type = C26_DateType(row)
            /\ Val(date).type = "YEAR_RANGE" =>
                  /\ Val(date).start_year = row.beginyear
                  /\ Val(date).end_year = row.endyear


\* C27: when a Cleveland row has image_web and image_print present with valid
\* URLs, the images of the produced artwork are one Image per column,
\* image_web first, each with the copyright of share_license_status; when
\* only one of the two is present the list holds that one Image.
C27_Images(row) ==
    LET One(cell) == IF IsNull(cell) THEN <<>>
                     ELSE <<[url |-> cell, copyright |-> row.share_license_status]>>
    IN  One(row.image_web) \o One(row.image_print)

C27_ValidOrAbsent(cell) == IsNull(cell) \/ IsHttpUrl(Val(cell))

C27_ImagePerColumn ==
    (/\ rowIn.op = "_row_to_artwork" /\ rowIn.museum = "cleveland_art"
     /\ C27_ValidOrAbsent(rowIn.row.image_web)
     /\ C27_ValidOrAbsent(rowIn.row.image_print)
     /\ ~(IsNull(rowIn.row.image_web) /\ IsNull(rowIn.row.image_print))) =>
        rowOut.images = C27_Images(rowIn.row)


\* the answer to page p of the listing req belongs to
C28_Page(p) == get_artworks(table, [req EXCEPT !.page = p])

\* C28: over an unchanged table, with the filter set and limit fixed, the
\* pages 1 .. ceil(total / limit) of GET /api/artworks are pairwise disjoint
\* and, in page order, list every matching row exactly once in ROWID order
\* (row number i of the matching rows is entry ((i - 1) % limit) + 1 of page
\* ((i - 1) \div limit) + 1 and no page holds anything else); every later
\* page is empty and reports the same total.
C28_PagesPartitionListing ==
    (req.op = "artworks") =>
        /\ ~NoSuchColumn(table, req)
        /\ LET matching == SelectWhere(table, req)
               total == Len(matching)
               limit == req.limit
               last == (total + limit - 1) \div limit
           IN  /\ resp = C28_Page(req.page)
               /\ \A p \in 1..last :
                     LET answer == C28_Page(p)
                     IN  /\ answer.status = 200
                         /\ answer.total = total
                         /\ Len(answer.artworks)
                               = Min2(limit, total - (p - 1) * limit)
                         /\ \A k \in 1..Len(answer.artworks) :
                               answer.artworks[k]
                                  = Artwork(matching[(p - 1) * limit + k])
               /\ req.page > last =>
                     /\ resp.status = 200
                     /\ resp.artworks = <<>>
                     /\ resp.total = total


\* C29: when process_artwork_batches has returned, whatever the input list
\* (artworks that share an id included) and whatever the fetch, embedding and
\* upsert failures, every input artwork is in exactly one of the successful
\* and failed lists: len(successful) + len(failed) = len(artworks).
C29_EveryArtworkAccounted ==
    (embed # NoCall /\ embed.status = "returned") =>
        Len(embed.successful_embeddings) + Len(embed.failed_embeddings)
            = Len(embed.artworks)


\* the rows a listing request matches, as a set
C30_Matched(q) == {SelectWhere(table, q)[i] : i \in 1..Len(SelectWhere(table, q))}

\* the answer to q has no larger total and matches no row the answer to the
\* current request does not match
C30_Narrows(q) ==
    LET answer == get_artworks(table, q)
    IN  answer.status = 200 =>
            /\ answer.total <= resp.total
            /\ C30_Matched(q) \subseteq C30_Matched(req)

\* C30: for GET /api/artworks with a fixed search and a min_year (either BCE
\* flag), supplying max_year in addition never increases total and never
\* adds an artwork to the result set; likewise adding min_year to a request
\* that has max_year.
C30_SecondBoundNarrows ==
    (req.op = "artworks" /\ resp.status = 200) =>
        /\ (~IsNull(req.min_year) /\ IsNull(req.max_year)) =>
              \A max_year \in YearParams \ {NULL}, max_is_bce \in BOOLEAN :
                  C30_Narrows([req EXCEPT !.max_year = max_year,
                                          !.max_is_bce = max_is_bce])
        /\ (~IsNull(req.max_year) /\ IsNull(req.min_year)) =>
              \A min_year \in YearParams \ {NULL}, min_is_bce \in BOOLEAN :
                  C30_Narrows([req EXCEPT !.min_year = min_year,
                                          !.min_is_bce = min_is_bce])

====
